---- MODULE Spec2Model ----
(***************************************************************************)
(* A model of the varana package (pbrus/variability-analyser):            *)
(*   varana/freq_comb.py  the search for integer linear combinations       *)
(*   varana/fit.py        the split of frequencies, the combination        *)
(*                        matrix and the final parameters of the fit       *)
(*                                                                         *)
(* Frequencies and the tolerance epsilon are fixed-point numbers: an       *)
(* integer n stands for n units of frequency.  Coefficient vectors are     *)
(* sequences of integers.  A numpy array is a record [dtype, vec]: the     *)
(* array np.zeros(n, dtype=bool) is [dtype |-> "bool", vec |-> <<0,..,0>>], *)
(* numpy's False being numerically 0.                                      *)
(***************************************************************************)
EXTENDS Integers, Sequences, FiniteSets, TLC

(***************************************************************************)
(* Bounds of the model                                                     *)
(***************************************************************************)
\* the largest size of a coefficient vector handed to the generator
MaxSize == 2
\* minimum and maximum are drawn from -MaxCoeff .. MaxCoeff
MaxCoeff == 2
\* max_harmonic is drawn from 0 .. MaxHarmonic (from -1 for the generator alone)
MaxHarmonic == 3
\* the frequencies of a base are drawn from 1 .. MaxBaseFreq units
MaxBaseFreq == 2
\* the target frequency of a search is drawn from -1 .. MaxTarget units
MaxTarget == 5
\* epsilon is drawn from 1 .. MaxEps units (1: only an exact match is accepted)
MaxEps == 2
\* the largest number of candidates handed to get_most_likely_combination
MaxCands == 3
\* the frequencies handed to split_frequencies are drawn from 1 .. MaxFreq units
MaxFreq == 3
\* the phases handed to normalize_phase are drawn from -MaxPhase .. MaxPhase units
MaxPhase == 130
\* the times of a light curve are drawn from 0 .. MaxTime units
MaxTime == 2

VARIABLES
    minimum,            \* lower bound of each coefficient
    maximum,            \* upper bound of each coefficient
    max_harmonic,       \* maximum value for a harmonic
    epsilon,            \* tolerance of the comparison of frequencies
    gen,                \* the generator object of coefficients_generator
    yielded,            \* every vector the generator has yielded, in order
    lc,                 \* the running call of linear_combination
    sel,                \* the running call of get_most_likely_combination
    sp,                 \* the running call of frequencies_combination
    fit,                \* the running call of fit_final_curve
    nph,                \* the running calls of normalize_phase
    res,                \* the running call of substract_model or save_residuals
    single,             \* the single-pass script of src/fit.py: its fit and its results
    limit,              \* trim.py: the y-values clicked and not yet used
    lim,                \* trim.py: the cut-off chosen by the clicks
    plot                \* trim.py: the interactive plot and the last click

vars == <<minimum, maximum, max_harmonic, epsilon, gen, yielded, lc, sel, sp, fit, nph, res,
          single, limit, lim, plot>>

args == <<minimum, maximum, max_harmonic, epsilon>>

(***************************************************************************)
(* Helpers on integers and vectors                                         *)
(***************************************************************************)
RECURSIVE Pow(_, _)
Pow(b, e) == IF e = 0 THEN 1 ELSE b * Pow(b, e - 1)

Abs(x) == IF x < 0 THEN -x ELSE x

Max0(x) == IF x < 0 THEN 0 ELSE x

\* row r of i * np.eye(size, dtype=int)
EyeRowMirrored(size, r, i) == [k \in 1..size |-> IF k = size + 1 - r THEN i ELSE 0]

EyeRow(size, r, i) == [k \in 1..size |-> IF k = r THEN i ELSE 0]

\* the tuple itertools.product yields after `row` (the last axis runs fastest)
RECURSIVE NextTupleFirstAxisFastest(_, _, _)
NextTupleFirstAxisFastest(row, lo, hi) ==
    IF Len(row) = 0 THEN row
    ELSE IF row[1] < hi THEN [row EXCEPT ![1] = @ + 1]
    ELSE <<lo>> \o NextTupleFirstAxisFastest(Tail(row), lo, hi)

RECURSIVE NextTuple(_, _, _)
NextTuple(row, lo, hi) ==
    LET n == Len(row) IN
    IF n = 0 THEN row
    ELSE IF row[n] < hi THEN [row EXCEPT ![n] = @ + 1]
    ELSE Append(NextTuple(SubSeq(row, 1, n - 1), lo, hi), lo)

(***************************************************************************)
(* coefficients_generator (freq_comb.py 15-58) as a generator object.      *)
(* gen.pc:  "created"   no next() yet, no line of the body has run         *)
(*          "harmonic"  the next yield is line 55, vector i * eye[r]       *)
(*          "product"   the next yield is line 58, vector row              *)
(*          "end"       the product is used up, the body has not returned  *)
(*          "exhausted" the body has returned (StopIteration)              *)
(*          "raised"    the body raised ImproperBounds                     *)
(***************************************************************************)
NewGenerator(size) ==
    [pc |-> "created", size |-> size, i |-> 0, r |-> 0, row |-> <<>>]

\* lines 47-50 and 57: the product starts at (minimum, ..., minimum)
ProductStart(g, lo) ==
    [g EXCEPT !.pc = "product", !.i = 0, !.r = 0,
              !.row = [k \in 1..g.size |-> lo]]

\* lines 44-53: where the body stands when it reaches its first yield
FirstCursor(g, lo, hi, harm) ==
    IF hi < harm /\ g.size > 0
    THEN [g EXCEPT !.pc = "harmonic", !.i = hi + 1, !.r = 1]
    ELSE ProductStart(g, lo)

\* the generator as the next resumption finds it
Cursor(g, lo, hi, harm) ==
    IF g.pc = "created" THEN FirstCursor(g, lo, hi, harm) ELSE g

\* lines 53-55: after yielding i * eye[r]
AfterHarmonic(c, lo, harm) ==
    IF c.r < c.size THEN [c EXCEPT !.r = @ + 1]
    ELSE IF c.i < harm THEN [c EXCEPT !.i = @ + 1, !.r = 1]
    ELSE ProductStart(c, lo)

\* lines 57-58: after yielding row
AfterProduct(c, lo, hi) ==
    IF \A k \in 1..c.size : c.row[k] = hi
    THEN [c EXCEPT !.pc = "end"]
    ELSE [c EXCEPT !.row = NextTuple(c.row, lo, hi)]

\* line 44
ImproperBoundsStrict(lo, hi) == lo > hi

ImproperBounds(lo, hi) == lo >= hi

\* lines 44-45: the first next() raises, nothing is yielded
GenRaise ==
    /\ gen.pc = "created"
    /\ ImproperBounds(minimum, maximum)
    /\ gen' = [gen EXCEPT !.pc = "raised"]
    /\ UNCHANGED yielded

\* lines 52-55: one yield of the harmonic block
GenYieldHarmonic ==
    LET c == Cursor(gen, minimum, maximum, max_harmonic) IN
    /\ ~(gen.pc = "created" /\ ImproperBounds(minimum, maximum))
    /\ c.pc = "harmonic"
    /\ yielded' = Append(yielded, EyeRow(c.size, c.r, c.i))
    /\ gen' = AfterHarmonic(c, minimum, max_harmonic)

\* lines 57-58: one yield of the Cartesian product
GenYieldProduct ==
    LET c == Cursor(gen, minimum, maximum, max_harmonic) IN
    /\ ~(gen.pc = "created" /\ ImproperBounds(minimum, maximum))
    /\ c.pc = "product"
    /\ yielded' = Append(yielded, c.row)
    /\ gen' = AfterProduct(c, minimum, maximum)

\* line 57: the product is used up, the body returns
GenStop ==
    /\ gen.pc = "end"
    /\ gen' = [gen EXCEPT !.pc = "exhausted"]
    /\ UNCHANGED yielded

\* the whole sequence a generator standing at cursor c still yields
RECURSIVE Drain(_, _, _, _, _)
Drain(c, lo, hi, harm, acc) ==
    IF c.pc = "harmonic"
    THEN Drain(AfterHarmonic(c, lo, harm), lo, hi, harm,
               Append(acc, EyeRow(c.size, c.r, c.i)))
    ELSE IF c.pc = "product"
    THEN Drain(AfterProduct(c, lo, hi), lo, hi, harm, Append(acc, c.row))
    ELSE acc

\* list(coefficients_generator(size, lo, hi, harm)) for proper bounds
coefficients_generator(size, lo, hi, harm) ==
    Drain(FirstCursor(NewGenerator(size), lo, hi, harm), lo, hi, harm, <<>>)

(***************************************************************************)
(* get_most_likely_combination (freq_comb.py 61-92)                        *)
(***************************************************************************)
RECURSIVE SumSeq(_)
SumSeq(s) == IF Len(s) = 0 THEN 0 ELSE Head(s) + SumSeq(Tail(s))

\* np.count_nonzero(x)
count_nonzero(x) == Cardinality({k \in 1..Len(x) : x[k] # 0})

\* sum(x ** 2)
sum_squares(x) == SumSeq([k \in 1..Len(x) |-> x[k] * x[k]])

\* sum(x < 0)
count_negative(x) == Cardinality({k \in 1..Len(x) : x[k] < 0})

\* the three sort keys of lines 84, 89 and 92
Key(kind, x) ==
    CASE kind = "nonzero" -> count_nonzero(x)
      [] kind = "squares" -> sum_squares(x)
      [] kind = "negative" -> count_negative(x)

\* x put into the sorted list s behind every element whose key is not larger
RECURSIVE InsertByKey(_, _, _)
InsertByKey(s, x, kind) ==
    IF Len(s) = 0 THEN <<x>>
    ELSE IF Key(kind, Head(s)) <= Key(kind, x)
    THEN <<Head(s)>> \o InsertByKey(Tail(s), x, kind)
    ELSE <<x>> \o s

\* sorted(list, key=...): Python's sort is stable
RECURSIVE SortedFrom(_, _, _)
SortedFrom(list, kind, acc) ==
    IF Len(list) = 0 THEN acc
    ELSE SortedFrom(Tail(list), kind, InsertByKey(acc, Head(list), kind))

sorted_by(list, kind) == SortedFrom(list, kind, <<>>)

\* [i for i in filter(lambda x: key(x) == key(sorted(list, key)[0]), list)]
\* (the lambda sorts the list anew for every x and finds the same head)
KeepKey(list, kind, k) == SelectSeq(list, LAMBDA x : Key(kind, x) = k)

FilterLargestKey(list, kind) ==
    LET s == sorted_by(list, kind) IN KeepKey(list, kind, Key(kind, s[Len(s)]))

FilterSmallestKey(list, kind) ==
    KeepKey(list, kind, Key(kind, sorted_by(list, kind)[1]))

\* lines 81-87
FilterNonzero(coefficients_set) == FilterSmallestKey(coefficients_set, "nonzero")

\* lines 88-90
FilterSquares(coeffs) == FilterSmallestKey(coeffs, "squares")

\* line 92
LastFewestNegative(coeffs) ==
    LET s == sorted_by(coeffs, "negative") IN s[Len(s)]

FewestNegative(coeffs) == sorted_by(coeffs, "negative")[1]

get_most_likely_combination(coefficients_set) ==
    FewestNegative(FilterSquares(FilterNonzero(coefficients_set)))

\* the call of get_most_likely_combination, one statement a step
SelIdle == [pc |-> "idle", coefficients_set |-> <<>>, coeffs |-> <<>>, result |-> <<>>]

SelFilterNonzero ==
    /\ sel.pc = "called"
    /\ sel' = [sel EXCEPT !.pc = "nonzero", !.coeffs = FilterNonzero(sel.coefficients_set)]

SelFilterSquares ==
    /\ sel.pc = "nonzero"
    /\ sel' = [sel EXCEPT !.pc = "squares", !.coeffs = FilterSquares(sel.coeffs)]

SelReturn ==
    /\ sel.pc = "squares"
    /\ sel' = [sel EXCEPT !.pc = "returned", !.result = FewestNegative(sel.coeffs)]

(***************************************************************************)
(* linear_combination (freq_comb.py 95-138)                                *)
(***************************************************************************)
\* np.dot(base, coeff)
RECURSIVE Dot(_, _)
Dot(base, coeff) ==
    IF Len(base) = 0 THEN 0
    ELSE Head(base) * Head(coeff) + Dot(Tail(base), Tail(coeff))

\* line 132
MatchesWithoutAbs(base, frequency, coeff, eps) == frequency - Dot(base, coeff) < eps

Matches(base, frequency, coeff, eps) == Abs(frequency - Dot(base, coeff)) < eps

\* np.zeros(n, dtype=bool), line 138
NotFoundAsInt(n) == [dtype |-> "int", vec |-> [k \in 1..n |-> 0]]

NotFound(n) == [dtype |-> "bool", vec |-> [k \in 1..n |-> 0]]

\* an integer array, as np.array(row) and i * np.eye(size, dtype=int) build it
IntArray(v) == [dtype |-> "int", vec |-> v]

\* the call ended with the exception ImproperBounds
Raised == [dtype |-> "ImproperBounds", vec |-> <<>>]

\* lines 135-138
LcResult(base, combination_list) ==
    IF Len(combination_list) # 0
    THEN IntArray(get_most_likely_combination(combination_list))
    ELSE NotFound(Len(base))

linear_combination(base, frequency, lo, hi, harm, eps) ==
    IF ImproperBounds(lo, hi) THEN Raised
    ELSE LcResult(base,
                  SelectSeq(coefficients_generator(Len(base), lo, hi, harm),
                            LAMBDA c : Matches(base, frequency, c, eps)))

\* np.any(array)
np_any(a) == \E k \in 1..Len(a.vec) : a.vec[k] # 0

\* the call of linear_combination
LcIdle == [pc |-> "idle", base |-> <<>>, frequency |-> 0, result |-> NotFound(0),
           previous |-> NotFound(0)]

\* a call that goes on with the generator object it finds
GeneratorLeftOver(g, size) == g

\* line 129: the generator object the call scans, g being the one of the call before
GeneratorOfCall(g, size) == NewGenerator(size)

\* lines 131-133: the vectors the loop gets out of the generator object g
Scanned(g, lo, hi, harm) ==
    IF g.pc = "created" THEN coefficients_generator(g.size, lo, hi, harm) ELSE <<>>

\* lines 128-138 with proper bounds: the loop uses the generator up, then
\* the choice among the collected vectors is returned
LcCall ==
    /\ lc.pc = "called"
    /\ gen.pc = "created"
    /\ ~ImproperBounds(minimum, maximum)
    /\ yielded' = coefficients_generator(gen.size, minimum, maximum, max_harmonic)
    /\ gen' = [gen EXCEPT !.pc = "exhausted"]
    /\ lc' = [lc EXCEPT !.pc = "returned",
                        !.result = linear_combination(lc.base, lc.frequency, minimum,
                                                      maximum, max_harmonic, epsilon)]

\* line 131: the first next() raises ImproperBounds, which leaves the call
LcRaise ==
    /\ lc.pc = "called"
    /\ GenRaise
    /\ lc' = [lc EXCEPT !.pc = "raised",
                        !.result = linear_combination(lc.base, lc.frequency, minimum,
                                                      maximum, max_harmonic, epsilon)]

\* lines 128-138: a second call with the arguments of the first
LcCallAgain ==
    /\ lc.pc = "returned"
    /\ LET g == GeneratorOfCall(gen, Len(lc.base))
           scan == Scanned(g, minimum, maximum, max_harmonic)
       IN /\ yielded' = scan
          /\ gen' = [g EXCEPT !.pc = "exhausted"]
          /\ lc' = [lc EXCEPT !.pc = "returned_again",
                              !.previous = lc.result,
                              !.result =
                                  LcResult(lc.base,
                                           SelectSeq(scan,
                                                     LAMBDA c : Matches(lc.base, lc.frequency,
                                                                        c, epsilon)))]

\* all sequences over S of a length in lo .. hi
SeqsOf(S, lo, hi) == UNION {[1..n -> S] : n \in lo..hi}

\* the bases a call of linear_combination is tried on: one or two frequencies
BasesOf(S) == SeqsOf(S, 1, 2)

(***************************************************************************)
(* split_frequencies (fit.py 230-265) and frequencies_combination          *)
(* (fit.py 268-304)                                                        *)
(***************************************************************************)
\* x put into the ascending list s
RECURSIVE InsertAscending(_, _)
InsertAscending(s, x) ==
    IF Len(s) = 0 THEN <<x>>
    ELSE IF Head(s) <= x THEN <<Head(s)>> \o InsertAscending(Tail(s), x)
    ELSE <<x>> \o s

RECURSIVE SortedAscending(_, _)
SortedAscending(list, acc) ==
    IF Len(list) = 0 THEN acc
    ELSE SortedAscending(Tail(list), InsertAscending(acc, Head(list)))

\* sorted(frequencies), line 256
sorted(frequencies) == SortedAscending(frequencies, <<>>)

\* frequencies[:1], line 257
FirstOf(frequencies) == SubSeq(frequencies, 1, IF Len(frequencies) = 0 THEN 0 ELSE 1)

\* the visit with the test of line 262 inverted
VisitInverted(basic_frequencies, f, lo, hi, harm, eps) ==
    IF np_any(linear_combination(basic_frequencies, f, lo, hi, harm, eps))
    THEN Append(basic_frequencies, f)
    ELSE basic_frequencies

\* lines 260-263: the basis after the visit of frequency f; the search has not raised
Visit(basic_frequencies, f, lo, hi, harm, eps) ==
    IF ~np_any(linear_combination(basic_frequencies, f, lo, hi, harm, eps))
    THEN Append(basic_frequencies, f)
    ELSE basic_frequencies

\* line 265: [freq for freq in frequencies if freq not in basic_frequencies]
NotInBasis(frequencies, basic_frequencies) ==
    SelectSeq(frequencies,
              LAMBDA freq : \A k \in 1..Len(basic_frequencies) : basic_frequencies[k] # freq)

\* lines 259-263 from iteration i on
RECURSIVE VisitFrom(_, _, _, _, _, _, _)
VisitFrom(frequencies, i, basic_frequencies, lo, hi, harm, eps) ==
    IF i >= Len(frequencies) - 1 THEN basic_frequencies
    ELSE VisitFrom(frequencies, i + 1,
                   Visit(basic_frequencies, frequencies[i + 2], lo, hi, harm, eps),
                   lo, hi, harm, eps)

\* the call raises ImproperBounds when its first search does
SplitRaises(frequencies, lo, hi) == Len(frequencies) >= 2 /\ ImproperBounds(lo, hi)

\* the pair split_frequencies returns when it does not raise
split_frequencies(frequencies, lo, hi, harm, eps) ==
    LET fs == sorted(frequencies)
        basic == VisitFrom(fs, 0, FirstOf(fs), lo, hi, harm, eps)
    IN [basic |-> basic, combined |-> NotInBasis(fs, basic)]

\* np.eye(n, dtype=int), line 297
Eye(n) == [r \in 1..n |-> EyeRow(n, r, 1)]

\* lines 300-302: the row appended for a combined frequency; np.append turns the
\* all-False array into a row of zeros
CombinationRow(base_frequencies, combined_frequency, lo, hi, harm, eps) ==
    linear_combination(base_frequencies, combined_frequency, lo, hi, harm, eps).vec

\* the pair frequencies_combination returns when it does not raise; the array is
\* [shape |-> <<rows, columns>>, rows |-> the rows]
frequencies_combination(frequencies, lo, hi, harm, eps) ==
    LET s == split_frequencies(frequencies, lo, hi, harm, eps)
        m == Len(s.basic)
    IN [base |-> s.basic,
        array |-> [shape |-> <<m + Len(s.combined), m>>,
                   rows |-> Eye(m) \o
                            [k \in 1..Len(s.combined) |->
                                CombinationRow(s.basic, s.combined[k], lo, hi, harm, eps)]]]

\* the frequency lists a call of frequencies_combination is tried on: up to three
\* frequencies, in any order, repeats included
FrequencyLists == SeqsOf(1..MaxFreq, 0, 3)

\* the call of frequencies_combination, one statement or loop iteration a step
SpIdle == [pc |-> "idle", input |-> <<>>, frequencies |-> <<>>,
           basic_frequencies |-> <<>>, i |-> 0, combined_frequencies |-> <<>>,
           array |-> [shape |-> <<0, 0>>, rows |-> <<>>], k |-> 0]

\* lines 256-257
SplitSort ==
    /\ sp.pc = "called"
    /\ sp' = [sp EXCEPT !.pc = "loop",
                        !.frequencies = sorted(sp.input),
                        !.basic_frequencies = FirstOf(sorted(sp.input)),
                        !.i = 0]

\* lines 259-263: one iteration of the loop
SplitVisit ==
    /\ sp.pc = "loop"
    /\ sp.i < Len(sp.frequencies) - 1
    /\ sp' = IF ImproperBounds(minimum, maximum)
             THEN [sp EXCEPT !.pc = "raised"]
             ELSE [sp EXCEPT !.i = @ + 1,
                             !.basic_frequencies =
                                 Visit(@, sp.frequencies[sp.i + 2], minimum, maximum,
                                       max_harmonic, epsilon)]

\* line 265
SplitReturn ==
    /\ sp.pc = "loop"
    /\ sp.i >= Len(sp.frequencies) - 1
    /\ sp' = [sp EXCEPT !.pc = "split",
                        !.combined_frequencies =
                            NotInBasis(sp.frequencies, sp.basic_frequencies)]

\* lines 296-297
CombEye ==
    /\ sp.pc = "split"
    /\ sp' = [sp EXCEPT !.pc = "rows", !.k = 0,
                        !.array = [shape |-> <<Len(sp.basic_frequencies),
                                               Len(sp.basic_frequencies)>>,
                                   rows |-> Eye(Len(sp.basic_frequencies))]]

\* lines 299-302: one iteration of the loop
CombAppend ==
    /\ sp.pc = "rows"
    /\ sp.k < Len(sp.combined_frequencies)
    /\ sp' = IF ImproperBounds(minimum, maximum)
             THEN [sp EXCEPT !.pc = "raised"]
             ELSE [sp EXCEPT !.k = @ + 1,
                             !.array.shape[1] = @ + 1,
                             !.array.rows =
                                 Append(@, CombinationRow(sp.basic_frequencies,
                                                          sp.combined_frequencies[sp.k + 1],
                                                          minimum, maximum, max_harmonic,
                                                          epsilon))]

\* line 304
CombReturn ==
    /\ sp.pc = "rows"
    /\ sp.k >= Len(sp.combined_frequencies)
    /\ sp' = [sp EXCEPT !.pc = "returned"]

(***************************************************************************)
(* The fit of the final curve (fit.py 54-191, 307-429).  Phases are counted *)
(* in units of 2*pi / TwoPi and held in a binary floating-point format of   *)
(* which the significands run below Mantissa: the sums and differences of   *)
(* phases are rounded to the nearest number of the format, ties to the even *)
(* significand, as the float64 arithmetic of the program rounds them.       *)
(* Amplitudes, offsets and frequencies are whole numbers of their units.    *)
(***************************************************************************)
\* 2 * np.pi
TwoPi == 64
\* the significands of the floating-point format are 0 .. Mantissa - 1
Mantissa == 16

\* the distance of neighbouring floating-point numbers of magnitude a
RECURSIVE SpacingFrom(_, _)
SpacingFrom(a, s) == IF a < Mantissa * s THEN s ELSE SpacingFrom(a, 2 * s)

\* the floating-point number nearest to x
Round(x) ==
    LET a == Abs(x)
        s == SpacingFrom(a, 1)
        q == a \div s
        rem == a - q * s
        r == IF 2 * rem < s THEN q * s
             ELSE IF 2 * rem > s THEN (q + 1) * s
             ELSE IF q % 2 = 0 THEN q * s ELSE (q + 1) * s
    IN IF x < 0 THEN -r ELSE r

\* the normalisation without the rounding of float64
NormalizePhaseExact(phase_param) == phase_param - TwoPi * (phase_param \div TwoPi)

\* line 429: phase_param - 2 * np.pi * (phase_param // (2 * np.pi))
normalize_phase(phase_param) ==
    Round(phase_param - Round(TwoPi * (phase_param \div TwoPi)))

\* the phases normalize_phase is tried on: the floating-point numbers of the format
\* between -MaxPhase and MaxPhase
PhaseInputs == {x \in -MaxPhase..MaxPhase : Round(x) = x}

\* a call of normalize_phase on x and a second call on the value of the first
PhIdle == [pc |-> "idle", x |-> 0, once |-> 0, twice |-> 0]

\* line 429, on the argument
PhaseNormalize ==
    /\ nph.pc = "called"
    /\ nph' = [nph EXCEPT !.pc = "once", !.once = normalize_phase(nph.x)]

\* line 429, on the value the first call returned
PhaseNormalizeAgain ==
    /\ nph.pc = "once"
    /\ nph' = [nph EXCEPT !.pc = "twice", !.twice = normalize_phase(nph.once)]

\* line 70: sqrt of the sum of the squares, to the whole unit below
amplitude(coefficients) ==
    LET n == coefficients[1] * coefficients[1] + coefficients[2] * coefficients[2]
    IN CHOOSE r \in 0..n : r * r <= n /\ n < (r + 1) * (r + 1)

\* atan2(y, x) for the directions that are whole multiples of pi / 4
atan2(y, x) ==
    LET eighth == TwoPi \div 8
    IN CASE y = 0 /\ x >= 0 -> 0
         [] y > 0 /\ x > 0 -> eighth
         [] y > 0 /\ x = 0 -> 2 * eighth
         [] y > 0 /\ x < 0 -> 3 * eighth
         [] y = 0 /\ x < 0 -> 4 * eighth
         [] y < 0 /\ x < 0 -> -(3 * eighth)
         [] y < 0 /\ x = 0 -> -(2 * eighth)
         [] y < 0 /\ x > 0 -> -eighth

\* lines 88-90
phase(coefficients) ==
    LET ph == atan2(coefficients[2], coefficients[1])
    IN IF ph >= 0 THEN ph ELSE Round(ph + TwoPi)

\* lines 109-115: every (A1, A2, y0) becomes (amplitude, phase, y0)
convert_linear_parameters(parameters) ==
    [n \in 1..Len(parameters) |->
        <<amplitude(parameters[n]), phase(parameters[n]), parameters[n][3]>>]

\* lines 135-141: the rows (amplitude, frequency, phase, y0), as many as zip pairs
add_frequencies(parameters, frequencies) ==
    [n \in 1..(IF Len(parameters) < Len(frequencies)
               THEN Len(parameters) ELSE Len(frequencies)) |->
        <<parameters[n][1], frequencies[n], parameters[n][2], parameters[n][3]>>]

\* lines 187-191, on the linear solution fit_approximate_curve has returned
approximate_parameters(linear, frequencies) ==
    add_frequencies(convert_linear_parameters(linear), frequencies)

\* np.dot(base_frequencies, combined_frequencies.T).tolist() taken to be the list of
\* the caller
CallerFrequencies(base_frequencies, array) == fit.frequencies

\* np.dot(base_frequencies, combined_frequencies.T).tolist(), line 370
CombinedValues(base_frequencies, array) ==
    [n \in 1..Len(array.rows) |-> Dot(base_frequencies, array.rows[n])]

RECURSIVE Flatten(_)
Flatten(pairs) == IF Len(pairs) = 0 THEN <<>> ELSE Head(pairs) \o Flatten(Tail(pairs))

\* lines 324-329 with column 1 (the frequency) taken where line 325 takes column 2
SeedWithFrequencyColumn(approximate_param, basic_frequencies) ==
    basic_frequencies
        \o Flatten([n \in 1..Len(approximate_param) |->
                       <<approximate_param[n][1], approximate_param[n][2]>>])
        \o <<SumSeq([n \in 1..Len(approximate_param) |-> approximate_param[n][4]])>>

\* lines 324-329
initial_sines_sum_parameters(approximate_param, basic_frequencies) ==
    basic_frequencies
        \o Flatten([n \in 1..Len(approximate_param) |->
                       <<approximate_param[n][1], approximate_param[n][3]>>])
        \o <<SumSeq([n \in 1..Len(approximate_param) |-> approximate_param[n][4]])>>

\* int(x / 2) for a whole x: the quotient cut towards zero
IntHalf(x) == IF x >= 0 THEN x \div 2 ELSE -((-x) \div 2)

\* lines 406-409 with the frequency after the phase
SineWithFrequencyLast(parameters, freqs, base_size, i) ==
    <<parameters[2 * i + base_size + 1], normalize_phase(parameters[2 * i + 1 + base_size + 1]),
      freqs[i + 1]>>

\* lines 406-409: what iteration i appends (the arrays of the program count from 0)
Sine(parameters, freqs, base_size, i) ==
    <<parameters[2 * i + base_size + 1], freqs[i + 1],
      normalize_phase(parameters[2 * i + 1 + base_size + 1])>>

\* lines 401-411
final_parameters(parameters, frequencies_comb) ==
    LET base_size == frequencies_comb.shape[2]
        freqs == CombinedValues(SubSeq(parameters, 1, base_size), frequencies_comb)
        n_parameters == IntHalf(Len(parameters) - base_size - 1)
    IN <<parameters[Len(parameters)]>>
           \o Flatten([n \in 1..n_parameters |-> Sine(parameters, freqs, base_size, n - 1)])

\* the solutions of the linear least squares problem tried for one sine
LinearSolutions == {<<3, 0, 1>>, <<-3, 3, 0>>, <<0, -3, 2>>}

\* the amplitudes and phases curve_fit is tried with: nothing bounds them
FittedAmplitudes == {-2, 3}
FittedPhases == {-1, 20, 9 * (TwoPi \div 8)}
FittedOffsets == {0, 5}

\* the vectors curve_fit may return for the seed x0 of base_size frequencies
FittedVectors(x0, base_size) ==
    LET n == IntHalf(Len(x0) - base_size - 1)
    IN {freqs \o Flatten(pairs) \o <<y0>> :
            freqs \in {s \in [1..base_size -> 1..(MaxFreq + 1)] :
                          \A j \in 1..base_size : s[j] \in {x0[j], x0[j] + 1}},
            pairs \in [1..n -> FittedAmplitudes \X FittedPhases],
            y0 \in FittedOffsets}

\* the frequency lists fit_final_curve is tried on
FitFrequencyLists == SeqsOf(1..MaxFreq, 0, 2)

\* the light curve fit_final_curve is tried on: rows of time, brightness, error
FitLightCurves == {<<<<0, 100, 1>>, <<1, 0, 2>>, <<2, 50, 1>>>>}

\* lines 163-165 and 372-374: the heap after curve_fit has been given the views
\* lightcurve[:, 0], lightcurve[:, 1], lightcurve[:, 2] of the array and a function
\* that builds its value in an array of its own; the solver writes its residuals
\* into the second view
CurveFitWritingResiduals(heap, lightcurve) ==
    [heap EXCEPT ![lightcurve] = [r \in 1..Len(@) |-> [@[r] EXCEPT ![2] = 0]]]

\* lines 163-165 and 372-374: the heap after curve_fit has been given the views
\* lightcurve[:, 0], lightcurve[:, 1], lightcurve[:, 2] of the array and a function
\* that builds its value in an array of its own (lines 218-225, 39-51): they are read
HeapAfterCurveFit(heap, lightcurve) == heap

\* fit.stages lists the stages the invocation has run, fit.error the exception that
\* has left it; printed and saved are what scripts/fit.py has done with the result.
\* The caller's light curve is the object 1 of fit.heap, before its value at the
\* call, file the rows np.savetxt has written
FitIdle == [pc |-> "idle", frequencies |-> <<>>, base_frequencies |-> <<>>,
            combined_frequencies |-> [shape |-> <<0, 0>>, rows |-> <<>>],
            approx_param |-> <<>>, x0 |-> <<>>, parameters |-> <<>>, result |-> <<>>,
            stages |-> <<>>, error |-> "none", printed |-> <<>>, saved |-> FALSE,
            heap |-> <<>>, before |-> <<>>, file |-> <<>>]

\* the statements of fit_final_curve in the order of the stages, lines 367-375
StageOrder == <<"BasisSplit", "LinearPrefit", "ParameterSeed", "NonlinearFit", "Normalize">>

\* the position after a stage, LinearPrefit left out
AfterSkippingPrefit(stage) ==
    CASE stage = "BasisSplit" -> "prefit"
      [] stage = "LinearPrefit" -> "prefit"
      [] stage = "ParameterSeed" -> "seed"
      [] stage = "NonlinearFit" -> "fitted"
      [] stage = "Normalize" -> "done"

\* the position of the invocation after a stage has returned
After(stage) ==
    CASE stage = "BasisSplit" -> "split"
      [] stage = "LinearPrefit" -> "prefit"
      [] stage = "ParameterSeed" -> "seed"
      [] stage = "NonlinearFit" -> "fitted"
      [] stage = "Normalize" -> "done"

\* the invocation after the stage has returned
Ran(f, stage) == [f EXCEPT !.pc = After(stage), !.stages = Append(@, stage)]

\* an invocation that goes on with the seed in place of the solution after the
\* exception
RaisedButGoesOn(f, stage, error) ==
    [f EXCEPT !.pc = "done", !.stages = Append(@, stage), !.error = error, !.result = f.x0]

\* the invocation after the stage has raised: the exception leaves fit_final_curve
RaisedIn(f, stage, error) ==
    [f EXCEPT !.pc = IF error = "ImproperBounds" THEN "raised" ELSE "failed",
              !.stages = Append(@, stage), !.error = error]

\* lines 367-369: frequencies_combination returns or raises ImproperBounds
FitBasisSplit ==
    /\ fit.pc = "start"
    /\ fit' = IF SplitRaises(fit.frequencies, minimum, maximum)
              THEN RaisedIn(fit, "BasisSplit", "ImproperBounds")
              ELSE LET c == frequencies_combination(fit.frequencies, minimum, maximum,
                                                    max_harmonic, epsilon)
                   IN [Ran(fit, "BasisSplit") EXCEPT !.base_frequencies = c.base,
                                                     !.combined_frequencies = c.array]

\* line 370: the linear fit returns some solution
FitLinearPrefit ==
    /\ fit.pc = "split"
    /\ \E linear \in [1..Len(fit.combined_frequencies.rows) -> LinearSolutions] :
          fit' = [Ran(fit, "LinearPrefit") EXCEPT
                     !.heap = HeapAfterCurveFit(fit.heap, 1),
                     !.approx_param =
                         approximate_parameters(
                             linear,
                             CombinedValues(fit.base_frequencies,
                                            fit.combined_frequencies))]

\* line 370: curve_fit raises
FitLinearPrefitFails ==
    /\ fit.pc = "split"
    /\ fit' = [RaisedIn(fit, "LinearPrefit", "curve_fit") EXCEPT
                  !.heap = HeapAfterCurveFit(fit.heap, 1)]

\* lines 371-373
FitParameterSeed ==
    /\ fit.pc = "prefit"
    /\ fit' = [Ran(fit, "ParameterSeed") EXCEPT
                  !.x0 = initial_sines_sum_parameters(fit.approx_param,
                                                      fit.base_frequencies)]

\* line 374: curve_fit returns some vector of the length of x0
FitNonlinearFit ==
    /\ fit.pc = "seed"
    /\ \E p \in FittedVectors(fit.x0, Len(fit.base_frequencies)) :
          fit' = [Ran(fit, "NonlinearFit") EXCEPT
                     !.parameters = p, !.heap = HeapAfterCurveFit(fit.heap, 1)]

\* line 374: curve_fit raises
FitNonlinearFitFails ==
    /\ fit.pc = "seed"
    /\ fit' = [RaisedIn(fit, "NonlinearFit", "curve_fit") EXCEPT
                  !.heap = HeapAfterCurveFit(fit.heap, 1)]

\* lines 375-377
FitNormalize ==
    /\ fit.pc = "fitted"
    /\ fit' = [Ran(fit, "Normalize") EXCEPT
                  !.result = final_parameters(fit.parameters, fit.combined_frequencies)]

\* scripts/fit.py line 126: print_parameters(parameters)
ScriptPrintParameters ==
    /\ fit.pc = "done"
    /\ fit' = [fit EXCEPT !.pc = "printed", !.printed = fit.result]

\* a further invocation: every name of fit_final_curve is local to the call, and
\* the module keeps no state; the light curve is read from its file again
FitCallAgain ==
    /\ fit.pc \in {"raised", "failed", "done", "printed", "saved"}
    /\ \E frequencies \in FitFrequencyLists :
          fit' = [FitIdle EXCEPT !.pc = "start", !.frequencies = frequencies,
                                 !.heap = <<fit.before>>, !.before = fit.before]

(***************************************************************************)
(* The residuals (fit.py 456-526).  An array is an object of a heap, the   *)
(* names of the program hold references (indices of the heap): a slice     *)
(* assignment writes into the object every holder of the reference sees.   *)
(* A row of a light curve is <<time, brightness, error, ...>>; brightness  *)
(* is counted in hundredths of the unit of the amplitudes, the sine of an  *)
(* angle in hundredths, and a frequency of one unit turns the angle by an  *)
(* eighth of 2*pi per unit of time.                                        *)
(***************************************************************************)
\* 100 * sin(2*pi * k / TwoPi) for k = 0 .. TwoPi / 4, to the nearest whole number
QuarterSine == <<0, 10, 20, 29, 38, 47, 56, 63, 71, 77, 83, 88, 92, 96, 98, 100, 100>>

\* np.sin of an angle, in hundredths
Sin(angle) ==
    LET half == TwoPi \div 2
        k == angle % TwoPi
        h == k % half
        s == QuarterSine[(IF h <= half \div 2 THEN h ELSE half - h) + 1]
    IN IF k < half THEN s ELSE -s

\* line 481: the term of the sine that starts at par[i + 1], i counted as in the code
SineTerm(par, i, x) ==
    par[i + 2] * Sin((TwoPi \div 8) * par[i + 3] * x + par[i + 4])

\* lines 476-483: the value at x of the function sines_sum(parameters) returns
sines_sum(parameters, x) ==
    SumSeq([n \in 1..(Len(parameters) \div 3) |-> SineTerm(parameters, 3 * (n - 1), x)])
        + QuarterSine[Len(QuarterSine)] * parameters[1]

\* line 223: the term of row i (counted from 0) of the model final_sines_sum returns
FinalSineTerm(linear_comb, param, i, x) ==
    LET n == linear_comb.shape[2]
        frequency == Dot(SubSeq(param, 1, n), linear_comb.rows[i + 1])
    IN param[n + 2 * i + 1] * Sin((TwoPi \div 8) * frequency * x + param[n + 2 * i + 2])

\* lines 217-225: the value at x, for the parameters param, of the function
\* final_sines_sum(linear_comb) returns
final_sines_sum(linear_comb, param, x) ==
    LET m == linear_comb.shape[1]
    IN SumSeq([k \in 1..m |-> FinalSineTerm(linear_comb, param, k - 1, x)])
           + QuarterSine[Len(QuarterSine)] * param[Len(param)]

\* line 503 with the model added to the column
RowPlusModel(row, value) == [row EXCEPT ![2] = @ + value]

\* line 503 for one row: column 2 less the model's value at column 1
RowMinusModel(row, value) == [row EXCEPT ![2] = @ - value]

\* line 503: data[:, 1] -= model(data[:, 0]), model given by its values
SubstractedRows(rows, model) ==
    [r \in 1..Len(rows) |-> RowMinusModel(rows[r], model[rows[r][1]])]

\* substract_model working on a copy of the array it is given
SubstractIntoCopy(heap, data, model) ==
    [heap |-> Append(heap, SubstractedRows(heap[data], model)), ret |-> Len(heap) + 1]

\* lines 503-505: the heap after the call and the reference returned
substract_model(heap, data, model) ==
    [heap |-> [heap EXCEPT ![data] = SubstractedRows(@, model)], ret |-> data]

\* the times of the light curves tried
Times == 0..MaxTime

\* the values of sines_sum(parameters) at the times tried
ModelOf(parameters) == [x \in Times |-> sines_sum(parameters, x)]

\* the arrays substract_model is tried on: up to two rows of three or four columns
DataArrays ==
    SeqsOf(Times \X {0, 100} \X {1, 2}, 0, 2)
        \cup SeqsOf(Times \X {0, 100} \X {1, 2} \X {7}, 1, 2)

\* the light curves save_residuals is tried on: three columns
LightCurves == SeqsOf(Times \X {0, 100} \X {1, 2}, 0, 2)

\* the models substract_model is tried with, given by their values at the times
Models == [Times -> {-50, 0, 30}]

\* the parameter vectors save_residuals is tried with: y0 and (amplitude,
\* frequency, phase) per sine
ParameterVectors == {<<0>>, <<2>>, <<5, 3, 1, 16>>, <<0, -2, 1, 64, 3, 2, 8>>}

\* the caller's array is the object 1 of the heap; before is its value at the call
ResIdle == [pc |-> "idle", heap |-> <<>>, before |-> <<>>, model |-> <<>>,
            ret |-> 0, file |-> <<>>]

\* lines 503-505: a call substract_model(data, model) on the caller's array
SubstractModel ==
    /\ res.pc = "substract"
    /\ LET out == substract_model(res.heap, 1, res.model)
       IN res' = [res EXCEPT !.pc = "substracted", !.heap = out.heap, !.ret = out.ret]

\* lines 524-526: a call save_residuals(lightcurve, parameters, filename) on the
\* caller's array; np.savetxt writes the rows of the array substract_model returned
SaveResiduals ==
    /\ res.pc = "save"
    /\ LET out == substract_model(res.heap, 1, res.model)
       IN res' = [res EXCEPT !.pc = "saved", !.heap = out.heap, !.ret = out.ret,
                             !.file = out.heap[out.ret]]

\* scripts/fit.py lines 128-129: save_residuals(lightcurve, parameters, args.resid)
\* on the array fit_final_curve was given, when --resid is given
ScriptSaveResiduals ==
    /\ fit.pc = "printed"
    /\ LET out == substract_model(fit.heap, 1, ModelOf(fit.result))
       IN fit' = [fit EXCEPT !.pc = "saved", !.saved = TRUE, !.heap = out.heap,
                             !.file = out.heap[out.ret]]

(***************************************************************************)
(* The single-pass path (src/fit.py 272-383): every sine has the four      *)
(* parameters amplitude, frequency, phase, y0, and the vector of the fit   *)
(* is the rows of the sines one after the other.  Phases are numbers of   *)
(* the floating-point format above, brightness is counted in hundredths.   *)
(***************************************************************************)
\* n_param, lines 291, 329
n_param == 4

\* line 298 for the sine that starts at index i, with y0 added for every sine
SineResidualWithEveryOffset(parameters, i, x) ==
    parameters[i + 1] * Sin((TwoPi \div 8) * parameters[i + 2] * x + parameters[i + 3])
        + QuarterSine[Len(QuarterSine)] * parameters[i + 4]

\* lines 294-300: what the sine that starts at index i adds to sum_sines
SineResidual(parameters, i, x) ==
    LET sin == parameters[i + 1]
                   * Sin((TwoPi \div 8) * parameters[i + 2] * x + parameters[i + 3])
    IN IF i = 0 THEN sin + QuarterSine[Len(QuarterSine)] * parameters[i + 4] ELSE sin

\* lines 291-302: sum_sines - y
residuals_final_fitting(parameters, x, y) ==
    SumSeq([k \in 1..(Len(parameters) \div n_param) |->
               SineResidual(parameters, n_param * (k - 1), x)]) - y

\* lines 332-339 for the four parameters of one sine
ReplaceNegative(par) ==
    LET flipped == IF par[1] < 0
                   THEN <<-par[1], par[2], Round(TwoPi \div 2 + par[3]), par[4]>>
                   ELSE par
    IN IF flipped[3] < 0
       THEN [flipped EXCEPT ![3] = Round(TwoPi + flipped[3])]
       ELSE flipped

\* lines 328-341: the array after the loop (the slices par are views of it)
_replace_negative_parameters(parameters) ==
    Flatten([k \in 1..(Len(parameters) \div n_param) |->
                ReplaceNegative(SubSeq(parameters, n_param * (k - 1) + 1, n_param * k))])

\* reshape((-1, 4)), line 326
Reshape(parameters) ==
    [k \in 1..(Len(parameters) \div n_param) |->
        SubSeq(parameters, n_param * (k - 1) + 1, n_param * k)]

\* lines 378-383: the fields of the line print_parameters writes for row i
PrintedRow(par, i) == IF i = 0 THEN par ELSE SubSeq(par, 1, 3)

\* the phases least_squares is tried with: nothing bounds them
SolverPhases == {-80, -40, -1, 20, 40, 72}

\* the vectors least_squares may return for n sines
SolverVectors(n) ==
    {Flatten(rows) :
        rows \in [1..n -> FittedAmplitudes \X (1..MaxFreq) \X SolverPhases \X FittedOffsets]}

\* the brightness columns tried, by time
Brightness == {[x \in Times |-> 0], [x \in Times |-> IF x % 2 = 0 THEN 100 ELSE 0]}

\* sines is the number of rows of init_parameters, y the column lightcurve[:, 1],
\* result_x the vector least_squares returned as it was before line 324
SingleIdle == [pc |-> "idle", sines |-> 0, y |-> <<>>, result_x |-> <<>>,
               parameters |-> <<>>, printed |-> <<>>, residuals |-> <<>>]

\* lines 321-326: least_squares returns some vector of the length of x0
FinalFitting ==
    /\ single.pc = "start"
    /\ \E x \in SolverVectors(single.sines) :
          single' = [single EXCEPT !.pc = "fitted", !.result_x = x,
                                   !.parameters = Reshape(_replace_negative_parameters(x))]

\* lines 322-323: least_squares raises
FinalFittingFails ==
    /\ single.pc = "start"
    /\ single' = [single EXCEPT !.pc = "failed"]

\* line 438: print_parameters(final_parameters), lines 378-383
SinglePrintParameters ==
    /\ single.pc = "fitted"
    /\ single' = [single EXCEPT
                     !.pc = "printed",
                     !.printed = [k \in 1..Len(single.parameters) |->
                                     PrintedRow(single.parameters[k], k - 1)]]

\* lines 440-441: save_residuals(lightcurve_org, final_parameters, args.resid),
\* lines 359-362
SingleSaveResiduals ==
    /\ single.pc = "printed"
    /\ single' = [single EXCEPT
                     !.pc = "saved",
                     !.residuals = [x \in Times |->
                                       residuals_final_fitting(Flatten(single.parameters),
                                                               x, single.y[x])]]

(***************************************************************************)
(* The interactive plot of trim.py (lines 21-22, 176-209, 368-373).  The   *)
(* y-values of the clicks are whole numbers; a click outside the axes has  *)
(* the y-value None.                                                       *)
(***************************************************************************)
\* the largest y-value of a click and the number of clicks of a session
MaxY == 3
MaxClicks == 4

\* event.ydata of a click that is not over the axes
None == 0 - 1

\* the values event.ydata may have
YData == (1..MaxY) \cup {None}

\* len(set(limit)) == 1 for a list of two elements, line 204
OneValue(pair) == pair[1] = pair[2]

\* sorted(...) of line 207 raises TypeError: None is not ordered with a number
SortRaises(pair) == (pair[1] = None) # (pair[2] = None)

\* lines is the cut-off drawn (lower_line, upper_line), cutoffs the arguments of the
\* calls cutoff(input_data, ., .) of the handler, in order, ydata the y-values of the
\* clicks so far; outcome and before describe the last click: how the handler was
\* left, and limit, lim and lines as they were when it was called; trimmed is the
\* cut-off of line 373
PlotIdle == [pc |-> "idle", lines |-> <<0, 0>>, cutoffs |-> <<>>, ydata |-> <<>>,
             outcome |-> "none",
             before |-> [limit |-> <<>>, lim |-> <<>>, lines |-> <<0, 0>>],
             trimmed |-> <<>>]

\* lines 199-209: the handler of button_press_event on a click of y-value ydata;
\* display_plot draws the cut-off and connects the same handler again
_onclick(ydata) ==
    LET appended == Append(limit, ydata)
        called == [plot EXCEPT !.ydata = Append(@, ydata),
                               !.before = [limit |-> limit, lim |-> lim,
                                           lines |-> plot.lines]]
    IN IF Len(appended) = 2
       THEN IF OneValue(appended)
            THEN /\ limit' = <<>>
                 /\ lim' = lim
                 /\ plot' = [called EXCEPT !.outcome = "returned"]
            ELSE IF SortRaises(appended)
                 THEN /\ limit' = appended
                      /\ lim' = lim
                      /\ plot' = [called EXCEPT !.outcome = "raised"]
                 ELSE /\ limit' = <<>>
                      /\ lim' = sorted(appended)
                      /\ plot' = [called EXCEPT
                                     !.outcome = "returned",
                                     !.lines = sorted(appended),
                                     !.cutoffs = Append(@, sorted(appended))]
       ELSE /\ limit' = appended
            /\ lim' = lim
            /\ plot' = [called EXCEPT !.outcome = "returned"]

\* a click on the canvas while the plot is shown
Click ==
    /\ plot.pc = "showing"
    /\ Len(plot.ydata) < MaxClicks
    /\ \E ydata \in YData : _onclick(ydata)

\* lines 372-373: the window is closed, plt.show() of line 196 returns
CloseWindow ==
    /\ plot.pc = "showing"
    /\ plot' = [plot EXCEPT !.pc = "closed", !.trimmed = IF lim # <<>> THEN lim ELSE <<>>]
    /\ UNCHANGED <<limit, lim>>

(***************************************************************************)
(* SpecGen: one generator per behaviour, its arguments drawn in Init       *)
(***************************************************************************)
InitGen ==
    /\ \/ /\ minimum \in -MaxCoeff..MaxCoeff
          /\ maximum \in -MaxCoeff..MaxCoeff
          /\ max_harmonic \in -1..MaxHarmonic
          /\ \E size \in 0..MaxSize : gen = NewGenerator(size)
       \* the call coefficients_generator(2, -2, 2, 5) of tests/test_freq_comb.py
       \/ /\ minimum = -2 /\ maximum = 2 /\ max_harmonic = 5
          /\ gen = NewGenerator(2)
    /\ epsilon = 1
    /\ yielded = <<>>
    /\ lc = LcIdle
    /\ sel = SelIdle
    /\ sp = SpIdle
    /\ fit = FitIdle
    /\ nph = PhIdle
    /\ res = ResIdle
    /\ single = SingleIdle
    /\ limit = <<>>
    /\ lim = <<>>
    /\ plot = PlotIdle

NextGen ==
    \/ GenRaise /\ UNCHANGED <<args, lc, sel, sp, fit, nph, res, single, limit, lim, plot>>
    \/ GenYieldHarmonic /\ UNCHANGED <<args, lc, sel, sp, fit, nph, res, single, limit, lim, plot>>
    \/ GenYieldProduct /\ UNCHANGED <<args, lc, sel, sp, fit, nph, res, single, limit, lim, plot>>
    \/ GenStop /\ UNCHANGED <<args, lc, sel, sp, fit, nph, res, single, limit, lim, plot>>

SpecGen == InitGen /\ [][NextGen]_vars

(***************************************************************************)
(* SpecComb: one call of linear_combination per behaviour                  *)
(***************************************************************************)
InitComb ==
    /\ minimum \in -MaxCoeff..MaxCoeff
    /\ maximum \in -MaxCoeff..MaxCoeff
    /\ max_harmonic \in 0..MaxHarmonic
    /\ epsilon \in 1..MaxEps
    /\ \E base \in BasesOf(1..MaxBaseFreq), frequency \in -1..MaxTarget :
          /\ lc = [LcIdle EXCEPT !.pc = "called", !.base = base, !.frequency = frequency]
          /\ gen = NewGenerator(Len(base))
    /\ yielded = <<>>
    /\ sel = SelIdle
    /\ sp = SpIdle
    /\ fit = FitIdle
    /\ nph = PhIdle
    /\ res = ResIdle
    /\ single = SingleIdle
    /\ limit = <<>>
    /\ lim = <<>>
    /\ plot = PlotIdle

NextComb ==
    \/ LcCall /\ UNCHANGED <<args, sel, sp, fit, nph, res, single, limit, lim, plot>>
    \/ LcRaise /\ UNCHANGED <<args, sel, sp, fit, nph, res, single, limit, lim, plot>>
    \/ LcCallAgain /\ UNCHANGED <<args, sel, sp, fit, nph, res, single, limit, lim, plot>>

SpecComb == InitComb /\ [][NextComb]_vars

(***************************************************************************)
(* SpecSelect: one call of get_most_likely_combination per behaviour       *)
(***************************************************************************)
InitSelect ==
    /\ minimum = 0 /\ maximum = 1 /\ max_harmonic = 1 /\ epsilon = 1
    /\ gen = NewGenerator(0)
    /\ yielded = <<>>
    /\ lc = LcIdle
    /\ sp = SpIdle
    /\ fit = FitIdle
    /\ \E list \in SeqsOf([1..2 -> -1..MaxCoeff], 1, MaxCands) :
          sel = [SelIdle EXCEPT !.pc = "called", !.coefficients_set = list]
    /\ nph = PhIdle
    /\ res = ResIdle
    /\ single = SingleIdle
    /\ limit = <<>>
    /\ lim = <<>>
    /\ plot = PlotIdle

NextSelect ==
    \/ SelFilterNonzero /\ UNCHANGED <<args, gen, yielded, lc, sp, fit, nph, res, single, limit, lim, plot>>
    \/ SelFilterSquares /\ UNCHANGED <<args, gen, yielded, lc, sp, fit, nph, res, single, limit, lim, plot>>
    \/ SelReturn /\ UNCHANGED <<args, gen, yielded, lc, sp, fit, nph, res, single, limit, lim, plot>>

SpecSelect == InitSelect /\ [][NextSelect]_vars

(***************************************************************************)
(* SpecSplit: one call of frequencies_combination per behaviour            *)
(***************************************************************************)
InitSplit ==
    /\ minimum \in -MaxCoeff..MaxCoeff
    /\ maximum \in -MaxCoeff..MaxCoeff
    /\ max_harmonic \in 0..MaxHarmonic
    /\ epsilon \in 1..MaxEps
    /\ gen = NewGenerator(0)
    /\ yielded = <<>>
    /\ lc = LcIdle
    /\ sel = SelIdle
    /\ \E input \in FrequencyLists :
          sp = [SpIdle EXCEPT !.pc = "called", !.input = input]
    /\ fit = FitIdle
    /\ nph = PhIdle
    /\ res = ResIdle
    /\ single = SingleIdle
    /\ limit = <<>>
    /\ lim = <<>>
    /\ plot = PlotIdle

NextSplit ==
    \/ SplitSort /\ UNCHANGED <<args, gen, yielded, lc, sel, fit, nph, res, single, limit, lim, plot>>
    \/ SplitVisit /\ UNCHANGED <<args, gen, yielded, lc, sel, fit, nph, res, single, limit, lim, plot>>
    \/ SplitReturn /\ UNCHANGED <<args, gen, yielded, lc, sel, fit, nph, res, single, limit, lim, plot>>
    \/ CombEye /\ UNCHANGED <<args, gen, yielded, lc, sel, fit, nph, res, single, limit, lim, plot>>
    \/ CombAppend /\ UNCHANGED <<args, gen, yielded, lc, sel, fit, nph, res, single, limit, lim, plot>>
    \/ CombReturn /\ UNCHANGED <<args, gen, yielded, lc, sel, fit, nph, res, single, limit, lim, plot>>

SpecSplit == InitSplit /\ [][NextSplit]_vars

(***************************************************************************)
(* SpecFit: one call of fit_final_curve per behaviour                      *)
(***************************************************************************)
InitFit ==
    /\ minimum \in -1..1
    /\ maximum = 1
    /\ max_harmonic \in 0..2
    /\ epsilon = 1
    /\ gen = NewGenerator(0)
    /\ yielded = <<>>
    /\ lc = LcIdle
    /\ sel = SelIdle
    /\ sp = SpIdle
    /\ \E frequencies \in FitFrequencyLists, lightcurve \in FitLightCurves :
          fit = [FitIdle EXCEPT !.pc = "start", !.frequencies = frequencies,
                                !.heap = <<lightcurve>>, !.before = lightcurve]
    /\ nph = PhIdle
    /\ res = ResIdle
    /\ single = SingleIdle
    /\ limit = <<>>
    /\ lim = <<>>
    /\ plot = PlotIdle

NextFit ==
    \/ FitBasisSplit /\ UNCHANGED <<args, gen, yielded, lc, sel, sp, nph, res, single, limit, lim, plot>>
    \/ FitLinearPrefit /\ UNCHANGED <<args, gen, yielded, lc, sel, sp, nph, res, single, limit, lim, plot>>
    \/ FitLinearPrefitFails /\ UNCHANGED <<args, gen, yielded, lc, sel, sp, nph, res, single, limit, lim, plot>>
    \/ FitParameterSeed /\ UNCHANGED <<args, gen, yielded, lc, sel, sp, nph, res, single, limit, lim, plot>>
    \/ FitNonlinearFit /\ UNCHANGED <<args, gen, yielded, lc, sel, sp, nph, res, single, limit, lim, plot>>
    \/ FitNonlinearFitFails /\ UNCHANGED <<args, gen, yielded, lc, sel, sp, nph, res, single, limit, lim, plot>>
    \/ FitNormalize /\ UNCHANGED <<args, gen, yielded, lc, sel, sp, nph, res, single, limit, lim, plot>>
    \/ ScriptPrintParameters /\ UNCHANGED <<args, gen, yielded, lc, sel, sp, nph, res, single, limit, lim, plot>>
    \/ ScriptSaveResiduals /\ UNCHANGED <<args, gen, yielded, lc, sel, sp, nph, res, single, limit, lim, plot>>
    \/ FitCallAgain /\ UNCHANGED <<args, gen, yielded, lc, sel, sp, nph, res, single, limit, lim, plot>>

SpecFit == InitFit /\ [][NextFit]_vars

(***************************************************************************)
(* SpecPhase: normalize_phase called on a phase and on its own value       *)
(***************************************************************************)
InitPhase ==
    /\ minimum = 0
    /\ maximum = 0
    /\ max_harmonic = 0
    /\ epsilon = 1
    /\ gen = NewGenerator(0)
    /\ yielded = <<>>
    /\ lc = LcIdle
    /\ sel = SelIdle
    /\ sp = SpIdle
    /\ fit = FitIdle
    /\ \E x \in PhaseInputs : nph = [PhIdle EXCEPT !.pc = "called", !.x = x]
    /\ res = ResIdle
    /\ single = SingleIdle
    /\ limit = <<>>
    /\ lim = <<>>
    /\ plot = PlotIdle

NextPhase ==
    \/ PhaseNormalize /\ UNCHANGED <<args, gen, yielded, lc, sel, sp, fit, res, single, limit, lim, plot>>
    \/ PhaseNormalizeAgain /\ UNCHANGED <<args, gen, yielded, lc, sel, sp, fit, res, single, limit, lim, plot>>

SpecPhase == InitPhase /\ [][NextPhase]_vars

(***************************************************************************)
(* SpecResiduals: one call of substract_model or save_residuals            *)
(***************************************************************************)
InitResiduals ==
    /\ minimum = 0
    /\ maximum = 0
    /\ max_harmonic = 0
    /\ epsilon = 1
    /\ gen = NewGenerator(0)
    /\ yielded = <<>>
    /\ lc = LcIdle
    /\ sel = SelIdle
    /\ sp = SpIdle
    /\ fit = FitIdle
    /\ nph = PhIdle
    /\ \/ \E data \in DataArrays, model \in Models :
             res = [ResIdle EXCEPT !.pc = "substract", !.heap = <<data>>,
                                   !.before = data, !.model = model]
       \/ \E lightcurve \in LightCurves, parameters \in ParameterVectors :
             res = [ResIdle EXCEPT !.pc = "save", !.heap = <<lightcurve>>,
                                   !.before = lightcurve, !.model = ModelOf(parameters)]
    /\ single = SingleIdle
    /\ limit = <<>>
    /\ lim = <<>>
    /\ plot = PlotIdle

NextResiduals ==
    \/ SubstractModel /\ UNCHANGED <<args, gen, yielded, lc, sel, sp, fit, nph, single, limit, lim, plot>>
    \/ SaveResiduals /\ UNCHANGED <<args, gen, yielded, lc, sel, sp, fit, nph, single, limit, lim, plot>>

SpecResiduals == InitResiduals /\ [][NextResiduals]_vars

(***************************************************************************)
(* SpecSingle: one run of the single-pass script from final_fitting on     *)
(***************************************************************************)
InitSingle ==
    /\ minimum = 0
    /\ maximum = 0
    /\ max_harmonic = 0
    /\ epsilon = 1
    /\ gen = NewGenerator(0)
    /\ yielded = <<>>
    /\ lc = LcIdle
    /\ sel = SelIdle
    /\ sp = SpIdle
    /\ fit = FitIdle
    /\ nph = PhIdle
    /\ res = ResIdle
    /\ \E n \in 1..2, y \in Brightness :
          single = [SingleIdle EXCEPT !.pc = "start", !.sines = n, !.y = y]
    /\ limit = <<>>
    /\ lim = <<>>
    /\ plot = PlotIdle

NextSingle ==
    \/ FinalFitting /\ UNCHANGED <<args, gen, yielded, lc, sel, sp, fit, nph, res, limit, lim, plot>>
    \/ FinalFittingFails /\ UNCHANGED <<args, gen, yielded, lc, sel, sp, fit, nph, res, limit, lim, plot>>
    \/ SinglePrintParameters /\ UNCHANGED <<args, gen, yielded, lc, sel, sp, fit, nph, res, limit, lim, plot>>
    \/ SingleSaveResiduals /\ UNCHANGED <<args, gen, yielded, lc, sel, sp, fit, nph, res, limit, lim, plot>>

SpecSingle == InitSingle /\ [][NextSingle]_vars

(***************************************************************************)
(* SpecTrim: one session of trim.py --display                              *)
(***************************************************************************)
InitTrim ==
    /\ minimum = 0
    /\ maximum = 0
    /\ max_harmonic = 0
    /\ epsilon = 1
    /\ gen = NewGenerator(0)
    /\ yielded = <<>>
    /\ lc = LcIdle
    /\ sel = SelIdle
    /\ sp = SpIdle
    /\ fit = FitIdle
    /\ nph = PhIdle
    /\ res = ResIdle
    /\ single = SingleIdle
    /\ limit = <<>>
    /\ lim = <<>>
    /\ \E lines \in {<<0, 0>>, <<1, MaxY>>} :
          plot = [PlotIdle EXCEPT !.pc = "showing", !.lines = lines,
                                  !.before.lines = lines]

NextTrim ==
    \/ Click /\ UNCHANGED <<args, gen, yielded, lc, sel, sp, fit, nph, res, single>>
    \/ CloseWindow /\ UNCHANGED <<args, gen, yielded, lc, sel, sp, fit, nph, res, single>>

SpecTrim == InitTrim /\ [][NextTrim]_vars

(***************************************************************************)
(* Claims about coefficients_generator, checked under SpecGen              *)
(***************************************************************************)
\* the number of vectors of the harmonic block
HarmonicCount ==
    IF maximum < max_harmonic THEN gen.size * (max_harmonic - maximum) ELSE 0

\* the number of vectors the claim C1 counts
DocumentedTotal ==
    gen.size * Max0(max_harmonic - maximum) + Pow(maximum - minimum + 1, gen.size)

\* the k-th vector of the documented sequence: h * e_i for h ascending and, within
\* h, the axis i ascending; then the product in lexicographic order
DocumentedAt(k) ==
    LET n == gen.size
        w == maximum - minimum + 1
        q == k - HarmonicCount - 1
    IN IF k <= HarmonicCount
       THEN [j \in 1..n |-> IF j = ((k - 1) % n) + 1
                             THEN maximum + 1 + ((k - 1) \div n) ELSE 0]
       ELSE [j \in 1..n |-> minimum + ((q \div Pow(w, n - j)) % w)]

YieldedAsDocumented ==
    /\ Len(yielded) <= DocumentedTotal
    /\ \A k \in 1..Len(yielded) : yielded[k] = DocumentedAt(k)
    /\ gen.pc \in {"end", "exhausted"} => Len(yielded) = DocumentedTotal
    /\ gen.pc \notin {"end", "exhausted"} => Len(yielded) < DocumentedTotal

NoVectorTwice ==
    \A j, k \in 1..Len(yielded) : j # k => yielded[j] # yielded[k]

\* the harmonic h = 0 is part of the harmonic block of a vector of two or more axes
ZeroHarmonicRepeats == gen.size >= 2 /\ maximum < 0 /\ 0 <= max_harmonic

\* C1 as stated: with minimum < maximum the generator yields the harmonic block
\* (only when maximum < max_harmonic; h ascending, the axis ascending within h) and
\* then the product in lexicographic order, nothing else, every vector exactly
\* once, size*max(0, max_harmonic-maximum) + (maximum-minimum+1)^size in all.
C1_Original ==
    minimum < maximum => YieldedAsDocumented /\ NoVectorTwice

\* C1 as amended: the same sequence and the same total; every vector is yielded
\* exactly once unless maximum < 0 <= max_harmonic and size >= 2, where the harmonic
\* h = 0 yields the zero vector once per axis (size times) and every other vector
\* exactly once.
C1_SequenceAndTotal ==
    minimum < maximum =>
        /\ YieldedAsDocumented
        /\ ~ZeroHarmonicRepeats => NoVectorTwice
        /\ ZeroHarmonicRepeats =>
              /\ \A j, k \in 1..Len(yielded) :
                    j # k /\ yielded[j] = yielded[k] => yielded[j] = [a \in 1..gen.size |-> 0]
              /\ gen.pc = "exhausted" =>
                    Cardinality({k \in 1..Len(yielded) :
                                    yielded[k] = [a \in 1..gen.size |-> 0]}) = gen.size

\* C1's witness: a used-up generator of two axes with both blocks
C1_Witness ==
    /\ gen.pc = "exhausted" /\ gen.size = 2
    /\ minimum = -1 /\ maximum = 1 /\ max_harmonic = 3
    /\ Len(yielded) = 13
    /\ yielded[1] = <<2, 0>> /\ yielded[4] = <<0, 3>>
    /\ yielded[5] = <<-1, -1>> /\ yielded[6] = <<-1, 0>> /\ yielded[13] = <<1, 1>>

(***************************************************************************)
(* Claims about linear_combination, checked under SpecComb                 *)
(***************************************************************************)
\* the enumerated search space as a set: the harmonic block and the bounded product
SearchSpace(n) ==
    {[j \in 1..n |-> IF j = i THEN h ELSE 0] : h \in (maximum + 1)..max_harmonic, i \in 1..n}
        \cup [1..n -> minimum..maximum]

Within(base, frequency, c) ==
    /\ frequency - Dot(base, c) < epsilon
    /\ Dot(base, c) - frequency < epsilon

SomeMatch == \E c \in SearchSpace(Len(lc.base)) : Within(lc.base, lc.frequency, c)

\* C2: with minimum >= maximum (equality included) the generator raises
\* ImproperBounds for every size and max_harmonic and yields no vector before it,
\* and the call of linear_combination ends with ImproperBounds, not with a
\* combination or the 'not found' value.
C2_ImproperBoundsRaises ==
    minimum >= maximum =>
        /\ yielded = <<>>
        /\ gen.pc \in {"created", "raised"}
        /\ lc.pc \in {"called", "raised"}
        /\ lc.pc = "raised" => gen.pc = "raised" /\ lc.result = Raised
        /\ gen.pc = "raised" => lc.pc = "raised"

\* C2's witness: a call with minimum = maximum has raised
C2_Witness ==
    /\ minimum = maximum /\ max_harmonic > maximum
    /\ lc.pc = "raised" /\ gen.pc = "raised" /\ Len(lc.base) = 2

\* C3: if some vector of the search space reproduces the target within epsilon,
\* the returned value is an integer vector of the search space that reproduces the
\* target within epsilon.
C3_FoundIsAMatch ==
    lc.pc = "returned" /\ SomeMatch =>
        /\ lc.result.dtype = "int"
        /\ lc.result.vec \in SearchSpace(Len(lc.base))
        /\ Within(lc.base, lc.frequency, lc.result.vec)

\* C3's witness: two vectors reproduce the target, the more likely one is returned
C3_Witness ==
    /\ lc.pc = "returned" /\ lc.base = <<2, 1>> /\ lc.frequency = 3
    /\ minimum = -1 /\ maximum = 2 /\ max_harmonic = 2 /\ epsilon = 1
    /\ Within(lc.base, lc.frequency, <<2, -1>>)
    /\ lc.result = IntArray(<<1, 1>>)

\* C4: if no vector of the search space reproduces the target within epsilon the
\* returned value is the all-False array of length len(base), and a returned value
\* is that array only then: a found combination, the all-zero one included, is an
\* integer array.
C4_NotFoundSentinel ==
    lc.pc = "returned" =>
        /\ ~SomeMatch => lc.result = [dtype |-> "bool", vec |-> [k \in 1..Len(lc.base) |-> 0]]
        /\ SomeMatch => lc.result.dtype = "int"
        /\ lc.result.dtype = "bool" <=> ~SomeMatch

\* C4's witness: nothing reproduces the target, the all-False array is returned
C4_Witness ==
    /\ lc.pc = "returned" /\ Len(lc.base) = 2 /\ ~SomeMatch
    /\ lc.result.dtype = "bool" /\ lc.result.vec = <<0, 0>>

(***************************************************************************)
(* Claims about get_most_likely_combination, checked under SpecSelect      *)
(***************************************************************************)
Elements(list) == {list[k] : k \in 1..Len(list)}

Least(T) == CHOOSE m \in T : \A t \in T : m <= t

FewestNonzero(list) ==
    {x \in Elements(list) :
        count_nonzero(x) = Least({count_nonzero(y) : y \in Elements(list)})}

SmallestSquares(list) ==
    {x \in FewestNonzero(list) :
        sum_squares(x) = Least({sum_squares(y) : y \in FewestNonzero(list)})}

\* the candidates of `list` that are members of T, in the order of `list`
Survivors(list, T) == SelectSeq(list, LAMBDA x : x \in T)

\* C5: for a non-empty list the result is one of the candidates (the only one of
\* a singleton list); it has the fewest non-zero coefficients of all, the smallest
\* sum of squares among those, and the fewest negative coefficients among the
\* candidates passing both; each filter works on the survivors of the one before.
C5_MostLikely ==
    LET S == sel.coefficients_set IN
    /\ sel.pc = "nonzero" => sel.coeffs = Survivors(S, FewestNonzero(S))
    /\ sel.pc = "squares" => sel.coeffs = Survivors(S, SmallestSquares(S))
    /\ sel.pc = "returned" =>
          /\ sel.result \in Elements(S)
          /\ Len(S) = 1 => sel.result = S[1]
          /\ sel.result \in SmallestSquares(S)
          /\ \A x \in SmallestSquares(S) : count_negative(sel.result) <= count_negative(x)

\* C5's witness: the second filter drops a candidate and the third one passes over
\* a candidate that stands before the chosen one
C5_Witness ==
    /\ sel.pc = "returned"
    /\ sel.coefficients_set = <<<<0, -1>>, <<0, 2>>, <<0, 1>>>>
    /\ sel.result = <<0, 1>>

(***************************************************************************)
(* Claims about split_frequencies and frequencies_combination              *)
(***************************************************************************)
\* some vector of the search space over base reproduces frequency within epsilon
Resolvable(base, frequency) ==
    \E c \in SearchSpace(Len(base)) : Within(base, frequency, c)

IsAscending(s) == \A k \in 1..(Len(s) - 1) : s[k] <= s[k + 1]

SameValues(s, t) ==
    /\ Len(s) = Len(t)
    /\ \A v \in Elements(s) \cup Elements(t) :
          Cardinality({k \in 1..Len(s) : s[k] = v}) = Cardinality({k \in 1..Len(t) : t[k] = v})

\* the basis the claim C6 describes: every frequency of the ascending list fs from
\* position k on is appended exactly when no vector resolves it over the basis so far
RECURSIVE DocumentedBasis(_, _, _)
DocumentedBasis(fs, k, basis) ==
    IF k > Len(fs) THEN basis
    ELSE DocumentedBasis(fs, k + 1,
                         IF Resolvable(basis, fs[k]) THEN basis ELSE Append(basis, fs[k]))

\* no frequency of the ascending list s is resolved over the ones before it
MutuallyIndependent(s) ==
    \A j \in 2..Len(s) : ~Resolvable(SubSeq(s, 1, j - 1), s[j])

\* C6: split_frequencies sorts the input ascending, seeds the basis with the
\* smallest frequency and appends a visited frequency exactly when no vector of the
\* search space over the basis built so far matches it; hence every element of the
\* returned basis after the first has no matching vector over the ones before it.
C6_Original ==
    sp.pc = "split" =>
        /\ IsAscending(sp.frequencies)
        /\ SameValues(sp.frequencies, sp.input)
        /\ sp.basic_frequencies =
               DocumentedBasis(sp.frequencies, 2,
                               SubSeq(sp.frequencies, 1,
                                      IF Len(sp.frequencies) = 0 THEN 0 ELSE 1))
        /\ MutuallyIndependent(sp.basic_frequencies)

\* C7: when no frequency of the input is resolved over the smaller ones,
\* split_frequencies returns the whole input in ascending order as the basis and
\* no dependents; an input of one frequency gives a basis of size 1 and no
\* dependents.
C7_IndependentInput ==
    sp.pc = "split" =>
        /\ IsAscending(sp.frequencies) /\ SameValues(sp.frequencies, sp.input)
        /\ MutuallyIndependent(sp.frequencies) =>
               /\ sp.basic_frequencies = sp.frequencies
               /\ sp.combined_frequencies = <<>>
        /\ Len(sp.input) = 1 =>
               /\ sp.basic_frequencies = sp.input
               /\ sp.combined_frequencies = <<>>

C7_Witness ==
    /\ sp.pc = "split"
    /\ sp.input = <<3, 1, 2>>
    /\ minimum = -1 /\ maximum = 0 /\ max_harmonic = 0 /\ epsilon = 1
    /\ MutuallyIndependent(sp.frequencies)
    /\ sp.basic_frequencies = <<1, 2, 3>>
    /\ sp.combined_frequencies = <<>>

\* C8: frequencies_combination returns a matrix of M = len(basis) columns and
\* M + len(dependents) rows; the first M rows are the identity, the basis and the
\* dependents are ascending, and the row of every dependent is a vector of the
\* search space that reproduces it from the basis within epsilon.
C8_Original ==
    sp.pc = "returned" =>
        LET M == Len(sp.basic_frequencies)
            D == sp.combined_frequencies
            A == sp.array
        IN /\ A.shape = <<M + Len(D), M>>
           /\ Len(A.rows) = M + Len(D)
           /\ \A r \in 1..Len(A.rows) : Len(A.rows[r]) = M
           /\ \A r \in 1..M : A.rows[r] = [j \in 1..M |-> IF j = r THEN 1 ELSE 0]
           /\ IsAscending(sp.basic_frequencies) /\ IsAscending(D)
           /\ \A k \in 1..Len(D) :
                 /\ A.rows[M + k] \in SearchSpace(M)
                 /\ Within(sp.basic_frequencies, D[k], A.rows[M + k])

\* where the statements C6 and C8 do hold: the zero vector resolves no input
\* frequency (every frequency is at least epsilon), respectively the coefficient
\* range contains 0
ZeroResolves == \E k \in 1..Len(sp.frequencies) : sp.frequencies[k] < epsilon
ZeroInRange == minimum <= 0 /\ 0 <= maximum
BasisAsDocumentedAboveEpsilon == ZeroResolves \/ C6_Original
MatrixAsDocumentedWithZeroInRange == ZeroInRange => C8_Original

(***************************************************************************)
(* Claims about final_parameters and fit_final_curve, checked under SpecFit *)
(***************************************************************************)
\* the number of sines and of basic frequencies of the finished fit
FitRows == fit.combined_frequencies.shape[1]
FitColumns == fit.combined_frequencies.shape[2]

\* C9: final_parameters maps the fitted vector p of length M + 2N + 1 and the
\* N x M matrix C to a vector of length 1 + 3N: the offset p[-1] first, then for
\* every row i of C, in row order, amplitude p[M+2i], frequency dot(p[:M], C[i])
\* and phase normalize_phase(p[M+2i+1]).
C9_FinalLayout ==
    (fit.pc = "done" /\ Len(fit.parameters) = FitColumns + 2 * FitRows + 1) =>
        LET p == fit.parameters
            C == fit.combined_frequencies.rows
            M == FitColumns
        IN /\ Len(C) = FitRows
           /\ Len(fit.result) = 1 + 3 * FitRows
           /\ fit.result[1] = p[Len(p)]
           /\ \A i \in 0..(FitRows - 1) :
                 /\ fit.result[2 + 3 * i] = p[M + 2 * i + 1]
                 /\ fit.result[3 + 3 * i] = SumSeq([j \in 1..M |-> p[j] * C[i + 1][j]])
                 /\ fit.result[4 + 3 * i] = normalize_phase(p[M + 2 * i + 2])

C9_Witness ==
    /\ fit.pc = "done"
    /\ fit.combined_frequencies.rows = <<<<1>>, <<2>>>>
    /\ fit.parameters = <<2, -2, -1, 3, 72, 5>>
    /\ fit.result = <<5, -2, 2, 64, 3, 4, 8>>

\* C10: in every vector fit_final_curve returns, whatever the solver produced,
\* the amplitude of each sine is >= 0 and its phase lies in [0, 2*pi).
C10_Original ==
    fit.pc = "done" =>
        \A i \in 0..(FitRows - 1) :
            /\ fit.result[2 + 3 * i] >= 0
            /\ 0 <= fit.result[4 + 3 * i]
            /\ fit.result[4 + 3 * i] < TwoPi

\* the two halves of the statement C10 taken apart: neither holds
ReturnedAmplitudesNotNegative ==
    fit.pc = "done" => \A i \in 0..(FitRows - 1) : fit.result[2 + 3 * i] >= 0
ReturnedPhasesBelowTwoPi ==
    fit.pc = "done" => \A i \in 0..(FitRows - 1) : fit.result[4 + 3 * i] < TwoPi
ReturnedPhasesNotNegative ==
    fit.pc = "done" => \A i \in 0..(FitRows - 1) : fit.result[4 + 3 * i] >= 0

(***************************************************************************)
(* Claims about normalize_phase, checked under SpecPhase                   *)
(***************************************************************************)
\* C11: for every x, negative ones included, normalize_phase(x) lies in [0, 2*pi)
\* and differs from x by a whole multiple of 2*pi, and normalize_phase is
\* idempotent: normalize_phase(normalize_phase(x)) = normalize_phase(x).
C11_Original ==
    /\ nph.pc \in {"once", "twice"} =>
          /\ 0 <= nph.once /\ nph.once < TwoPi
          /\ (nph.once - nph.x) % TwoPi = 0
    /\ nph.pc = "twice" => nph.twice = nph.once

\* the parts of the statement C11 taken apart
NormalizedNotNegative == nph.pc \in {"once", "twice"} => 0 <= nph.once
NormalizedBelowTwoPi == nph.pc \in {"once", "twice"} => nph.once < TwoPi
NormalizedIdempotent == nph.pc = "twice" => nph.twice = nph.once
\* what float64 does keep: the value is at most 2*pi, and it is the exact
\* normalisation whenever the difference needs no rounding
NormalizedAtMostTwoPi == nph.pc \in {"once", "twice"} => nph.once <= TwoPi
NormalizedExactWhenRepresentable ==
    (nph.pc \in {"once", "twice"} /\ Round(NormalizePhaseExact(nph.x)) = NormalizePhaseExact(nph.x))
        => nph.once = NormalizePhaseExact(nph.x)

(***************************************************************************)
(* Claims about the residuals, checked under SpecResiduals                 *)
(***************************************************************************)
\* the array the call has returned
ReturnedArray == res.heap[res.ret]

\* C12: substract_model(data, model) returns an array with the same rows in the
\* same order; in every row the brightness (second column) is the old brightness
\* minus the model at the time of the row, and the time, the error and any
\* further column are as before.
C12_SubtractsModel ==
    res.pc = "substracted" =>
        /\ Len(ReturnedArray) = Len(res.before)
        /\ \A r \in 1..Len(res.before) :
              /\ Len(ReturnedArray[r]) = Len(res.before[r])
              /\ ReturnedArray[r][2] = res.before[r][2] - res.model[res.before[r][1]]
              /\ \A c \in 1..Len(res.before[r]) :
                    c # 2 => ReturnedArray[r][c] = res.before[r][c]

C12_Witness ==
    /\ res.pc = "substracted"
    /\ res.before = <<<<2, 100, 1, 7>>, <<0, 0, 2, 7>>>>
    /\ res.model[2] = 30 /\ res.model[0] = -50
    /\ ReturnedArray = <<<<2, 70, 1, 7>>, <<0, 50, 2, 7>>>>

\* C13: the residuals are a pure function of the parameters and the light curve:
\* after substract_model or save_residuals has returned, the array the caller
\* passed holds the brightness values it held before the call, and the residuals
\* are in another array.
C13_Original ==
    res.pc \in {"substracted", "saved"} =>
        /\ Len(res.heap[1]) = Len(res.before)
        /\ \A r \in 1..Len(res.before) : res.heap[1][r][2] = res.before[r][2]
        /\ res.ret # 1

\* the part of C13 the code keeps: the caller's brightness column is as before
\* exactly when the model is 0 at every time of the light curve
CallerArrayKeptOnlyByZeroModel ==
    res.pc \in {"substracted", "saved"} =>
        ((\A r \in 1..Len(res.before) : res.heap[1][r][2] = res.before[r][2])
            <=> (\A r \in 1..Len(res.before) : res.model[res.before[r][1]] = 0))

(***************************************************************************)
(* Claims about the stages of fit_final_curve, checked under SpecFit       *)
(***************************************************************************)
DocumentedStages ==
    <<"BasisSplit", "LinearPrefit", "ParameterSeed", "NonlinearFit", "Normalize">>

\* the stages run so far are the first ones of the documented order, each once
StagesInOrder ==
    /\ Len(fit.stages) <= Len(DocumentedStages)
    /\ \A k \in 1..Len(fit.stages) : fit.stages[k] = DocumentedStages[k]

\* the number of stages behind an invocation at position pc that has not raised
StagesBehind(pc) ==
    CASE pc = "start" -> 0
      [] pc = "split" -> 1
      [] pc = "prefit" -> 2
      [] pc = "seed" -> 3
      [] pc = "fitted" -> 4
      [] pc \in {"done", "printed", "saved"} -> 5

\* C14: every invocation of fit_final_curve runs BasisSplit, LinearPrefit,
\* ParameterSeed, NonlinearFit and Normalize in this order, each at most once and,
\* when it succeeds, none skipped; an invocation starts with nothing left by an
\* earlier one.
C14_StageOrder ==
    /\ StagesInOrder
    /\ fit.error = "none" => Len(fit.stages) = StagesBehind(fit.pc)
    /\ fit.pc = "start" =>
          fit = [pc |-> "start", frequencies |-> fit.frequencies, base_frequencies |-> <<>>,
                 combined_frequencies |-> [shape |-> <<0, 0>>, rows |-> <<>>],
                 approx_param |-> <<>>, x0 |-> <<>>, parameters |-> <<>>, result |-> <<>>,
                 stages |-> <<>>, error |-> "none", printed |-> <<>>, saved |-> FALSE,
                 heap |-> <<fit.before>>, before |-> fit.before, file |-> <<>>]

C14_Witness ==
    /\ fit.pc = "done"
    /\ fit.stages = DocumentedStages
    /\ fit.frequencies = <<2, 1>>
    /\ Len(fit.x0) = Len(fit.base_frequencies) + 2 * Len(fit.approx_param) + 1
    /\ Len(fit.result) = 7

\* C15: when the linear pre-fit or the nonlinear solve fails, the failure leaves
\* fit_final_curve at once: no further stage runs, no parameter vector is
\* returned, and the script prints no parameters and writes no residuals.
C15_FailureLeaves ==
    /\ fit.error = "curve_fit" =>
          /\ fit.pc = "failed"
          /\ fit.stages \in {<<"BasisSplit", "LinearPrefit">>,
                             <<"BasisSplit", "LinearPrefit", "ParameterSeed", "NonlinearFit">>}
          /\ fit.result = <<>>
          /\ fit.printed = <<>>
          /\ ~fit.saved
    /\ (fit.printed # <<>> \/ fit.saved) => (fit.error = "none" /\ fit.result # <<>>)

C15_Witness ==
    /\ fit.pc = "failed"
    /\ fit.error = "curve_fit"
    /\ fit.stages = <<"BasisSplit", "LinearPrefit", "ParameterSeed", "NonlinearFit">>
    /\ fit.x0 # <<>>
    /\ fit.parameters = <<>>
    /\ fit.printed = <<>>

\* C16: fit_final_curve called with an empty list of frequencies raises
\* MalformedInput before the basis split or any other stage has begun.
C16_Original ==
    (Len(fit.frequencies) = 0 /\ fit.pc # "start") =>
        /\ fit.error = "MalformedInput"
        /\ fit.stages = <<>>

\* what the code does with the empty list: the basis split runs and returns the
\* empty basis, and the first exception, if any, is the one of curve_fit
EmptyListReachesThePrefit ==
    (Len(fit.frequencies) = 0 /\ fit.pc # "start") =>
        /\ Len(fit.stages) >= 1
        /\ fit.stages[1] = "BasisSplit"
        /\ fit.error \in {"none", "curve_fit"}
        /\ fit.combined_frequencies.shape = <<0, 0>>

(***************************************************************************)
(* Further claims about frequencies_combination, checked under SpecSplit   *)
(***************************************************************************)
\* the dependents whose row has been appended to the array
RowsAppended == Len(sp.array.rows) - sp.array.shape[2]

\* C17: when no vector resolves a dependent over the final basis,
\* frequencies_combination fails and returns no matrix: the 'not found' value is
\* never stored as a row, so every row appended is for a resolved dependent and the
\* call does not return with an unresolved one.
C17_Original ==
    /\ sp.pc = "rows" =>
          \A k \in 1..RowsAppended :
              Resolvable(sp.basic_frequencies, sp.combined_frequencies[k])
    /\ sp.pc = "returned" =>
          \A k \in 1..Len(sp.combined_frequencies) :
              Resolvable(sp.basic_frequencies, sp.combined_frequencies[k])

\* what the code does: the row of a dependent nothing resolves is the row of zeros
UnresolvedRowIsZeros ==
    sp.pc \in {"rows", "returned"} =>
        \A k \in 1..RowsAppended :
            ~Resolvable(sp.basic_frequencies, sp.combined_frequencies[k]) =>
                sp.array.rows[sp.array.shape[2] + k] = [j \in 1..sp.array.shape[2] |-> 0]

(***************************************************************************)
(* Further claims about coefficients_generator, checked under SpecGen      *)
(***************************************************************************)
\* the generator of coefficients_generator(size=2, min=-2, max=2, max_harmonic=5)
Scenario225 ==
    gen.size = 2 /\ minimum = -2 /\ maximum = 2 /\ max_harmonic = 5

\* the bounded product has begun: its first vector (min, min) has been yielded.
\* No harmonic vector equals it, so its position is the number of vectors before
\* the product plus one
ProductBegunAt(k) == k \in 1..Len(yielded) /\ yielded[k] = <<-2, -2>>

\* C18 as stated: in this call the vectors yielded before the product begins are
\* the first 4 yielded vectors, the harmonic vectors h * e_i for h = 3, 4, 5 on
\* each of the 2 axes, h ascending and the axis ascending within h.
C18_Original ==
    Scenario225 =>
        /\ \A k \in 1..Len(yielded) : ProductBegunAt(k) => k = 4 + 1
        /\ \A k \in 1..Len(yielded) :
              k <= 4 => yielded[k] = <<<<3, 0>>, <<0, 3>>, <<4, 0>>, <<0, 4>>>>[k]

\* C18: in this call the vectors yielded before the product begins are the first
\* 6 yielded vectors: (3,0), (0,3), (4,0), (0,4), (5,0), (0,5), that is h * e_i for
\* h = 3, 4, 5 on each of the 2 axes, h ascending and the axis ascending within h;
\* the 7th vector is the first of the product, (-2,-2).
C18_FirstSixHarmonic ==
    Scenario225 =>
        /\ \A k \in 1..Len(yielded) : ProductBegunAt(k) <=> k = 7
        /\ \A k \in 1..Len(yielded) :
              k <= 6 => yielded[k] =
                  <<<<3, 0>>, <<0, 3>>, <<4, 0>>, <<0, 4>>, <<5, 0>>, <<0, 5>>>>[k]

C18_Witness ==
    /\ Scenario225
    /\ gen.pc = "product"
    /\ Len(yielded) = 7
    /\ yielded[6] = <<0, 5>>
    /\ yielded[7] = <<-2, -2>>

(***************************************************************************)
(* Further claims about linear_combination, checked under SpecComb         *)
(***************************************************************************)
\* the vectors of the scan that reproduce the target, in the order of the scan
MatchingInScanOrder ==
    SelectSeq(yielded, LAMBDA c : Within(lc.base, lc.frequency, c))

\* the first vector of list that is in the set T
FirstIn(list, T) ==
    list[CHOOSE k \in 1..Len(list) :
            /\ list[k] \in T
            /\ \A j \in 1..(k - 1) : list[j] \notin T]

\* the candidates of list that pass all three filters
TiedAfterFilters(list) ==
    {x \in SmallestSquares(list) :
        count_negative(x) = Least({count_negative(y) : y \in SmallestSquares(list)})}

\* C19: among the candidates still tied after the three filters the one found
\* first in the scan of linear_combination is returned, and a second call with the
\* same arguments, which scans a new enumeration from its beginning, returns the
\* same value.
C19_FirstFoundDeterministic ==
    /\ (lc.pc \in {"returned", "returned_again"} /\ SomeMatch) =>
          /\ Len(MatchingInScanOrder) > 0
          /\ lc.result.vec = FirstIn(MatchingInScanOrder, TiedAfterFilters(MatchingInScanOrder))
    /\ lc.pc = "returned_again" => lc.result = lc.previous

\* C19's witness: (0,1) and (1,0) reproduce the target and tie in all three
\* filters; (0,1) is found first and is returned by both calls
C19_Witness ==
    /\ lc.pc = "returned_again"
    /\ lc.base = <<1, 1>> /\ lc.frequency = 1
    /\ minimum = 0 /\ maximum = 1 /\ max_harmonic = 0 /\ epsilon = 1
    /\ TiedAfterFilters(MatchingInScanOrder) = {<<0, 1>>, <<1, 0>>}
    /\ lc.previous = IntArray(<<0, 1>>)
    /\ lc.result = IntArray(<<0, 1>>)

(***************************************************************************)
(* The order of the scan, checked under SpecGen                            *)
(***************************************************************************)
\* the vectors of the bounded product, in the order they were yielded
ProductBlock == SubSeq(yielded, HarmonicCount + 1, Len(yielded))

\* the place of the first vector of the product with the value v on axis a
FirstAt(a, v) ==
    CHOOSE k \in 1..Len(ProductBlock) :
        /\ ProductBlock[k][a] = v
        /\ \A j \in 1..(k - 1) : ProductBlock[j][a] # v

\* x stands before y in the order of itertools.product: the first axis on which
\* they differ holds the smaller value in x
LexLess(x, y) ==
    \E j \in 1..Len(x) : x[j] < y[j] /\ \A i \in 1..(j - 1) : x[i] = y[i]

\* the product is the Cartesian product of range(min, max + 1) per axis in the
\* order of itertools.product
ProductInProductOrder ==
    /\ Len(ProductBlock) = Pow(maximum - minimum + 1, gen.size)
    /\ \A k \in 1..Len(ProductBlock) :
          \A a \in 1..gen.size : ProductBlock[k][a] \in minimum..maximum
    /\ \A k \in 1..(Len(ProductBlock) - 1) : LexLess(ProductBlock[k], ProductBlock[k + 1])

\* a generator of at least one axis that has yielded all of its vectors
ScanComplete == gen.pc = "exhausted" /\ gen.size >= 1 /\ minimum < maximum

\* C20 as stated: on every axis the coefficients of smallest magnitude come first
\* in the scan, and the order is the one of the Cartesian product of
\* range(min, max + 1) per axis.
C20_Original ==
    ScanComplete =>
        /\ \A a \in 1..gen.size : \A v, w \in minimum..maximum :
              FirstAt(a, v) < FirstAt(a, w) => Abs(v) <= Abs(w)
        /\ ProductInProductOrder

\* C20: the order of the scan of the product is the one of the Cartesian product
\* of range(min, max + 1) per axis: on every axis the coefficients come in
\* ascending order from min to max, the most negative first; the coefficients of
\* smallest magnitude come first on every axis exactly when min >= 0.
C20_AscendingOrder ==
    ScanComplete =>
        /\ \A a \in 1..gen.size : \A v, w \in minimum..maximum :
              FirstAt(a, v) < FirstAt(a, w) <=> v < w
        /\ ProductInProductOrder
        /\ (\A a \in 1..gen.size : \A v, w \in minimum..maximum :
               FirstAt(a, v) < FirstAt(a, w) => Abs(v) <= Abs(w))
              <=> minimum >= 0

C20_Witness ==
    /\ ScanComplete
    /\ gen.size = 2 /\ minimum = -2 /\ maximum = 1 /\ max_harmonic = 3
    /\ ProductBlock[1] = <<-2, -2>> /\ ProductBlock[2] = <<-2, -1>>
    /\ FirstAt(1, -2) < FirstAt(1, 0)
    /\ FirstAt(2, -2) < FirstAt(2, 0)

(***************************************************************************)
(* Claims about the seed of the nonlinear fit, checked under SpecFit       *)
(***************************************************************************)
\* the sum of the y0 column of the first n rows of the pre-fit array
RECURSIVE OffsetsSum(_, _)
OffsetsSum(approximate_param, n) ==
    IF n = 0 THEN 0 ELSE OffsetsSum(approximate_param, n - 1) + approximate_param[n][4]

\* C21: initial_sines_sum_parameters builds, from the N x 4 pre-fit array
\* (amplitude, frequency, phase, offset per row) and the M basis frequencies, the
\* seed [basis_1 .. basis_M, amplitude_1, phase_1, ..., amplitude_N, phase_N, sum
\* of the offsets of all rows], of length M + 2N + 1; the frequency column of the
\* pre-fit array is not copied into the seed.
C21_SeedLayout ==
    (fit.pc = "seed" /\ Len(fit.approx_param) >= 1) =>
        LET a == fit.approx_param
            N == Len(a)
            M == Len(fit.base_frequencies)
            x0 == fit.x0
        IN /\ \A n \in 1..N : Len(a[n]) = 4
           /\ Len(x0) = M + 2 * N + 1
           /\ \A j \in 1..M : x0[j] = fit.base_frequencies[j]
           /\ \A n \in 1..N : x0[M + 2 * n - 1] = a[n][1] /\ x0[M + 2 * n] = a[n][3]
           /\ x0[M + 2 * N + 1] = OffsetsSum(a, N)

\* the seed of the basis <<1>> with the dependent 2: the frequencies 1 and 2 of the
\* pre-fit rows are not in it, the offsets 1 and 2 are summed
C21_Witness ==
    /\ fit.pc = "seed"
    /\ fit.base_frequencies = <<1>>
    /\ fit.approx_param = <<<<3, 1, 0, 1>>, <<3, 2, 6 * (TwoPi \div 8), 2>>>>
    /\ fit.x0 = <<1, 3, 0, 3, 6 * (TwoPi \div 8), 3>>

(***************************************************************************)
(* Claims about the two forms of the model, checked under SpecFit          *)
(***************************************************************************)
\* the terms of the two models agree: as many as rows, the amplitude and the frequency
\* of the fitted vector, the phase a whole number of turns away from the fitted one
SameTerms ==
    LET p == fit.parameters
        C == fit.combined_frequencies.rows
        M == FitColumns
    IN /\ Len(fit.result) = 1 + 3 * FitRows
       /\ fit.result[1] = p[Len(p)]
       /\ \A i \in 0..(FitRows - 1) :
             /\ fit.result[2 + 3 * i] = p[M + 2 * i + 1]
             /\ fit.result[3 + 3 * i] = SumSeq([j \in 1..M |-> p[j] * C[i + 1][j]])
             /\ (fit.result[4 + 3 * i] - p[M + 2 * i + 2]) % TwoPi = 0

\* the two models have the same value at every time
SameValuesOfModels ==
    \A x \in Times :
        final_sines_sum(fit.combined_frequencies, fit.parameters, x)
            = sines_sum(fit.result, x)

\* C22: for every fitted vector p and combination matrix C, final_sines_sum(C)
\* evaluated with p and sines_sum(final_parameters(p, C)) are the same sum of sines:
\* N terms each, term i with the frequency dot(p[:M], C[i]), the amplitude p[M+2i],
\* a phase equal to p[M+2i+1] modulo 2*pi, and the offset p[-1] added once.
C22_Original ==
    (fit.pc = "done" /\ FitRows >= 1) => (SameTerms /\ SameValuesOfModels)

\* every phase of the fitted vector is normalised without rounding
PhasesNormalizedExactly ==
    \A i \in 0..(FitRows - 1) :
        normalize_phase(fit.parameters[FitColumns + 2 * i + 2])
            = NormalizePhaseExact(fit.parameters[FitColumns + 2 * i + 2])

\* the statement holds wherever normalize_phase has not rounded
C22_SameModelWithoutRounding ==
    (fit.pc = "done" /\ FitRows >= 1 /\ PhasesNormalizedExactly) =>
        (SameTerms /\ SameValuesOfModels)

\* apart from the phases the terms agree in every run
C22_SameAmplitudesFrequenciesOffset ==
    (fit.pc = "done" /\ FitRows >= 1) =>
        /\ Len(fit.result) = 1 + 3 * FitRows
        /\ fit.result[1] = fit.parameters[Len(fit.parameters)]
        /\ \A i \in 0..(FitRows - 1) :
              /\ fit.result[2 + 3 * i] = fit.parameters[FitColumns + 2 * i + 1]
              /\ fit.result[3 + 3 * i]
                     = Dot(SubSeq(fit.parameters, 1, FitColumns),
                           fit.combined_frequencies.rows[i + 1])

(***************************************************************************)
(* Claims about the single-pass path, checked under SpecSingle             *)
(***************************************************************************)
\* the rows of the vector least_squares returned
FittedRows == Reshape(single.result_x)

\* the amplitudes final_fitting returns are not negative
SingleAmplitudesNotNegative ==
    single.pc = "fitted" => \A k \in 1..single.sines : single.parameters[k][1] >= 0

\* final_fitting returns the frequencies and the y-intercepts of the solver
SingleFrequenciesAndOffsetsKept ==
    single.pc = "fitted" =>
        \A k \in 1..single.sines :
            /\ single.parameters[k][2] = FittedRows[k][2]
            /\ single.parameters[k][4] = FittedRows[k][4]

\* a negative amplitude is negated and pi is added to its phase before the second test
SingleNegativeAmplitudeFlipped ==
    single.pc = "fitted" =>
        \A k \in 1..single.sines :
            LET before == IF FittedRows[k][1] < 0
                          THEN Round(TwoPi \div 2 + FittedRows[k][3])
                          ELSE FittedRows[k][3]
            IN /\ single.parameters[k][1] = Abs(FittedRows[k][1])
               /\ single.parameters[k][3]
                      = IF before < 0 THEN Round(TwoPi + before) ELSE before

\* the phases final_fitting returns lie in [0, 2*pi)
SinglePhasesInRange ==
    single.pc = "fitted" =>
        \A k \in 1..single.sines :
            0 <= single.parameters[k][3] /\ single.parameters[k][3] < TwoPi

\* C23: in the single-pass path, after _replace_negative_parameters of any fitted
\* vector, every sine's amplitude is >= 0 and every sine's phase lies in [0, 2*pi):
\* a negative amplitude is negated with pi added to its phase, and the phase is then
\* renormalized into [0, 2*pi); frequencies and y-intercepts are left unchanged.
C23_Original ==
    /\ SingleAmplitudesNotNegative
    /\ SinglePhasesInRange
    /\ SingleFrequenciesAndOffsetsKept

\* the phases returned are in [0, 2*pi], the end reached by rounding, when the
\* solver's phase, after pi is added for a negative amplitude, is in [-2*pi, 2*pi)
SinglePhasesInRangeWithinOneTurn ==
    single.pc = "fitted" =>
        \A k \in 1..single.sines :
            LET before == IF FittedRows[k][1] < 0
                          THEN Round(TwoPi \div 2 + FittedRows[k][3])
                          ELSE FittedRows[k][3]
            IN (-TwoPi <= before /\ before < TwoPi)
                   => (0 <= single.parameters[k][3] /\ single.parameters[k][3] <= TwoPi)

\* the vectors that differ from the flat vector p at most in the y-intercepts of the
\* sines after the first
OtherLaterOffsets(p) ==
    {[j \in 1..Len(p) |->
         IF j > n_param /\ j % n_param = 0 THEN o[j \div n_param] ELSE p[j]] :
        o \in [2..(Len(p) \div n_param) -> FittedOffsets \cup {-7}]}

\* the sum of the sines alone of the flat vector p at x
SinesAlone(p, x) ==
    SumSeq([k \in 1..(Len(p) \div n_param) |->
               p[n_param * (k - 1) + 1]
                   * Sin((TwoPi \div 8) * p[n_param * (k - 1) + 2] * x
                             + p[n_param * (k - 1) + 3])])

\* C24: in the single-pass representation only the first sine carries the offset: two
\* parameter vectors that differ only in the y-intercepts of the sines of index > 0
\* give the same residual at every x, the residual is the sum of the sines plus the
\* y-intercept of the first sine, once, less the brightness, and print_parameters
\* writes the y-intercept of the first row alone.
C24_FirstSineCarriesOffset ==
    single.pc = "saved" =>
        LET p == Flatten(single.parameters)
        IN /\ \A x \in Times :
                 /\ single.residuals[x]
                        = SinesAlone(p, x) + QuarterSine[Len(QuarterSine)] * p[n_param]
                              - single.y[x]
                 /\ \A q \in OtherLaterOffsets(p) :
                        residuals_final_fitting(q, x, single.y[x]) = single.residuals[x]
           /\ Len(single.printed[1]) = n_param
           /\ \A k \in 2..single.sines : Len(single.printed[k]) = n_param - 1

\* two sines with the y-intercepts 5 and 5: the residual at time 0 holds 500 once
C24_Witness ==
    /\ single.pc = "saved"
    /\ single.sines = 2
    /\ single.parameters = <<<<3, 1, 20, 5>>, <<3, 2, 40, 5>>>>
    /\ single.y[0] = 100
    /\ single.residuals[0] = 3 * Sin(20) + 3 * Sin(40) + 500 - 100

(***************************************************************************)
(* Claims about the caller's light curve, checked under SpecFit            *)
(***************************************************************************)
\* the array fit_final_curve was given is as it was at the call
LightCurveUnchanged == fit.heap[1] = fit.before

\* C25: fit_final_curve treats the caller's light curve as immutable: after it
\* returns or raises, the time, brightness and error columns of the array passed in
\* are unchanged, so that the save_residuals call of the script that follows
\* subtracts the fitted model from the original measurements.
C25_LightCurveImmutable ==
    /\ fit.pc \in {"start", "split", "prefit", "seed", "fitted",
                   "done", "printed", "raised", "failed"} => LightCurveUnchanged
    /\ fit.pc = "saved" =>
          /\ Len(fit.file) = Len(fit.before)
          /\ \A r \in 1..Len(fit.before) :
                fit.file[r] = <<fit.before[r][1],
                                fit.before[r][2] - sines_sum(fit.result, fit.before[r][1]),
                                fit.before[r][3]>>

\* the residuals of one sine of amplitude 3, frequency 1, phase 20 and offset 5
C25_Witness ==
    /\ fit.pc = "saved"
    /\ fit.result = <<5, 3, 1, 20>>
    /\ fit.before = <<<<0, 100, 1>>, <<1, 0, 2>>, <<2, 50, 1>>>>
    /\ fit.file = <<<<0, 100 - 500 - 3 * Sin(20), 1>>,
                    <<1, 0 - 500 - 3 * Sin(28), 2>>,
                    <<2, 50 - 500 - 3 * Sin(36), 1>>>>
    /\ fit.file # fit.before

(***************************************************************************)
(* Claims about the partition of the input, checked under SpecSplit        *)
(***************************************************************************)
\* how often the value v occurs in the sequence s
Occurrences(s, v) == Cardinality({k \in 1..Len(s) : s[k] = v})

\* every occurrence of an input frequency is in exactly one of the two lists
Partitioned ==
    \A v \in 1..(MaxFreq + 1) :
        Occurrences(sp.basic_frequencies, v) + Occurrences(sp.combined_frequencies, v)
            = Occurrences(sp.input, v)

\* C26: split_frequencies partitions its input: every occurrence of an input
\* frequency ends up in exactly one of the two returned lists, so len(basis) +
\* len(dependents) == len(frequencies) and the combination matrix has one row per
\* input frequency, also when the input contains duplicate values (a duplicate of a
\* basis frequency is reported as a dependent, not dropped).
C26_Original ==
    /\ sp.pc \in {"split", "rows", "returned"} =>
          /\ Partitioned
          /\ Len(sp.basic_frequencies) + Len(sp.combined_frequencies) = Len(sp.input)
    /\ sp.pc = "returned" => Len(sp.array.rows) = Len(sp.input)

\* the input has no value twice
NoDuplicates == \A j, k \in 1..Len(sp.input) : sp.input[j] = sp.input[k] => j = k

\* the statement holds for the inputs without duplicates
C26_PartitionWithoutDuplicates == NoDuplicates => C26_Original

(***************************************************************************)
(* Claims about the rows of the dependents, checked under SpecSplit        *)
(***************************************************************************)
\* the row frequencies_combination has stored for the dependent k
RowOfDependent(k) == sp.array.rows[sp.array.shape[2] + k]

\* C27: for every dependent d returned by split_frequencies and every admissible
\* bounds (min < max, min > 0 or max < 0 included), the row frequencies_combination
\* builds for d over the final basis satisfies |dot(basis, row) - d| < epsilon: what
\* was resolvable over the basis prefix at split time is resolvable over the final
\* basis, and no row of a dependent is all zeros.
C27_Original ==
    (sp.pc = "returned" /\ minimum < maximum) =>
        \A k \in 1..Len(sp.combined_frequencies) :
            /\ Within(sp.basic_frequencies, sp.combined_frequencies[k], RowOfDependent(k))
            /\ \E j \in 1..Len(RowOfDependent(k)) : RowOfDependent(k)[j] # 0

\* the statement holds when the coefficient 0 is within the bounds and no dependent is
\* below epsilon
C27_RowsReproduceWithZeroInRange ==
    (ZeroInRange /\ ~ZeroResolves) => C27_Original

(***************************************************************************)
(* Claims about the frequencies of the pre-fit, checked under SpecFit      *)
(***************************************************************************)
\* the frequency the model of final_sines_sum computes for its term i (from 0) at
\* the parameters param, fit.py line 221
TermFrequency(param, i) ==
    SumSeq([j \in 1..FitColumns |-> param[j] * fit.combined_frequencies.rows[i + 1][j]])

\* C28: in fit_final_curve the frequency list handed to the linear pre-fit has one
\* entry per row of the combination matrix, in row order, entry i being dot(basis,
\* row i); hence the i-th (amplitude, phase) pair of the seed is the pre-fit result
\* of the very frequency the nonlinear model computes for its i-th sine at the seed,
\* for every i, whatever the order in which the caller listed the frequencies.
C28_PrefitFrequenciesInRowOrder ==
    fit.pc \in {"prefit", "seed"} =>
        LET rows == fit.combined_frequencies.rows
            M == Len(fit.base_frequencies)
        IN /\ Len(fit.approx_param) = Len(rows)
           /\ \A i \in 1..Len(rows) :
                 /\ fit.approx_param[i][2]
                        = SumSeq([j \in 1..M |-> fit.base_frequencies[j] * rows[i][j]])
                 /\ fit.pc = "seed" =>
                       /\ TermFrequency(fit.x0, i - 1) = fit.approx_param[i][2]
                       /\ fit.x0[M + 2 * i - 1] = fit.approx_param[i][1]
                       /\ fit.x0[M + 2 * i] = fit.approx_param[i][3]

\* the caller lists 2 before 1: the pre-fit rows are in the order of the matrix, the
\* dependent 2 = 2 * 1 last
C28_Witness ==
    /\ fit.pc = "seed"
    /\ fit.frequencies = <<2, 1>>
    /\ fit.base_frequencies = <<1>>
    /\ fit.combined_frequencies.rows = <<<<1>>, <<2>>>>
    /\ fit.approx_param = <<<<3, 1, 0, 1>>, <<4, 2, 3 * (TwoPi \div 8), 0>>>>
    /\ fit.x0 = <<1, 3, 0, 4, 3 * (TwoPi \div 8), 1>>

(***************************************************************************)
(* Claims about the bounds check of the search, checked under SpecSplit    *)
(***************************************************************************)
\* C29: the bounds check is lazy, ImproperBounds being raised when the first
\* coefficient vector is requested.  With min_coeff >= max_coeff, split_frequencies
\* (and frequencies_combination) raises ImproperBounds for every input of at least
\* two frequencies before it returns any basis, whereas for an input of one
\* frequency the search is never started and ([f], []) is returned without an error.
C29_LazyBoundsCheck ==
    /\ (minimum >= maximum /\ Len(sp.input) >= 2) =>
          /\ sp.pc \in {"called", "loop", "raised"}
          /\ sp.i = 0
          /\ sp.combined_frequencies = <<>>
          /\ sp.array.rows = <<>>
    /\ Len(sp.input) = 1 =>
          /\ sp.pc # "raised"
          /\ sp.pc \in {"split", "rows", "returned"} =>
                (sp.basic_frequencies = sp.input /\ sp.combined_frequencies = <<>>)
          /\ sp.pc = "returned" => sp.array.rows = <<<<1>>>>
    /\ sp.pc = "raised" => (minimum >= maximum /\ Len(sp.input) >= 2)

\* equal bounds: the first search of the call on two frequencies has raised
C29_Witness ==
    /\ sp.pc = "raised"
    /\ minimum = 1 /\ maximum = 1
    /\ sp.input = <<2, 1>>
    /\ sp.basic_frequencies = <<1>>

\* the call on one frequency has returned under the same bounds
C29_SingleFrequencyReturned ==
    /\ sp.pc = "returned"
    /\ minimum = 1 /\ maximum = 1
    /\ sp.input = <<2>>
    /\ sp.basic_frequencies = <<2>>

(***************************************************************************)
(* Claims about the click handler of trim.py, checked under SpecTrim       *)
(***************************************************************************)
\* the handler has returned from the last click
Returned == plot.outcome = "returned"

\* the y-value of the last click
LastYData == plot.ydata[Len(plot.ydata)]

\* limit holds at most one pending y-value
AtMostOnePending == Len(limit) <= 1

\* lim is empty or a pair of two distinct y-values in ascending order
LimEmptyOrAscendingPair ==
    lim = <<>> \/ (Len(lim) = 2 /\ lim[1] < lim[2] /\ lim[1] # None /\ lim[2] # None)

\* the last click was a second click of the y-value of the first
SameValueTwice ==
    Len(plot.before.limit) = 1 /\ plot.before.limit[1] = LastYData

\* the last click has drawn the plot again, with the cut-off of the two clicks
Redrawn ==
    /\ Len(plot.cutoffs) >= 1
    /\ plot.lines = plot.cutoffs[Len(plot.cutoffs)]
    /\ plot.lines = lim
    /\ Len(plot.before.limit) = 1
    /\ plot.before.limit[1] # LastYData
    /\ lim = sorted(<<plot.before.limit[1], LastYData>>)

\* C30: after any sequence of clicks, when _onclick returns, limit holds at most one
\* pending y-value (it is emptied on every second click); lim is empty or a pair of
\* two distinct y-values sorted ascending; two consecutive clicks of the same
\* y-value clear the pending selection and leave lim and the cut-off displayed
\* unchanged; the plot is drawn again with cutoff(input_data, lim[0], lim[1]) only on
\* a second click whose y-value differs from the first.
C30_Original ==
    (plot.pc = "showing" /\ Returned) =>
        /\ AtMostOnePending
        /\ Len(plot.ydata) % 2 = 0 => limit = <<>>
        /\ LimEmptyOrAscendingPair
        /\ SameValueTwice =>
              (limit = <<>> /\ lim = plot.before.lim /\ plot.lines = plot.before.lines)
        /\ (plot.lines # plot.before.lines \/ lim # plot.before.lim) => Redrawn
        /\ Len(plot.cutoffs) <= Len(plot.ydata) \div 2

\* every click of the session so far was over the axes
EveryClickOverTheAxes == \A k \in 1..Len(plot.ydata) : plot.ydata[k] # None

\* the statement holds as long as every click is over the axes
C30_HoldsOverTheAxes ==
    EveryClickOverTheAxes => ((Returned \/ plot.ydata = <<>>) /\ C30_Original)

\* what the code does after a pair with one None: the handler is left by TypeError
\* with both values pending, and every later click adds one more
PendingGrowsAfterTypeError ==
    (plot.pc = "showing" /\ Len(limit) >= 2) =>
        /\ (limit[1] = None) # (limit[2] = None)
        /\ \A k \in 1..Len(limit) : limit[k] = plot.ydata[Len(plot.ydata) - Len(limit) + k]

====
